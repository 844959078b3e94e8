------------------------------ MODULE Delivery ------------------------------
(***************************************************************************)
(* External notification deliveries (tasks/delivery_tasks.py): the task    *)
(* that executes one delivery, the sweep that enqueues retries under a     *)
(* Redis lock, the reconciliation of stale rows and the manual replay.     *)
(*                                                                         *)
(* The task reads its row without a lock and works on that copy; its first *)
(* flush takes the row's lock until the commit.  An ORM flush writes only  *)
(* the columns whose value differs from the copy; the bulk UPDATEs write   *)
(* by id, whatever the row has become.                                     *)
(***************************************************************************)
EXTENDS Integers, FiniteSets

CONSTANTS
    Deliveries, Workers, Sweepers, Nobody,
    MaxRetries,    \* max_retries of a delivery
    MaxMessages,   \* bound: messages of one delivery waiting in the broker
    MaxCrashes,    \* bound: tasks that die
    MaxReplays     \* bound: manual replays of one delivery

ASSUME DeliveryConstants ==
    /\ MaxRetries \in Nat \ {0}
    /\ {MaxMessages, MaxCrashes, MaxReplays} \subseteq Nat
    /\ Nobody \notin Workers \cup Sweepers

VARIABLES
    row,
    queue,     \* messages in the broker, a number for each delivery
    work,      \* what each worker does, with the copy of the row it loaded
    sweep,     \* what each sweep has found and enqueued
    owner, client,   \* the sweep's Redis lock
    replay,    \* the copy an administrator's replay works on
    accepted,  \* ghost: how often the provider took the message
    excuse,    \* ghost: replays, crashes after a send and starts on a stale copy
    crashes

vars == <<row, queue, work, sweep, owner, client, replay, accepted, excuse, crashes>>
lock == <<owner, client>>

Lock == INSTANCE RedisLock WITH Clients <- Sweepers

Statuses == {"queued", "failed", "sent", "delivered", "skipped", "dead_lettered"}

Row == [status : Statuses, attempts : Nat, due : {"none", "later", "now"}]

Work == [at : {"idle", "loaded", "sending", "accepted", "refused", "rejected"},
         of : Deliveries, copy : Row]

\* Rows, messages and tasks have their types, and a delivery is tried at most
\* max_retries times, with one try more for each replay that did not reset its count
\* and each task on a stale copy.
TypeOK ==
    /\ row \in [Deliveries -> Row]
    /\ \A d \in Deliveries : row[d].attempts <= MaxRetries + excuse[d]
    /\ queue \in [Deliveries -> Nat]
    /\ work \in [Workers -> Work]
    /\ sweep \in [Sweepers -> [found : SUBSET Deliveries, enqueued : SUBSET Deliveries]]
    /\ Lock!LockTypeOK
    /\ replay \in [Deliveries -> Row \cup {Nobody}]
    /\ accepted \in [Deliveries -> Nat]
    /\ excuse \in [Deliveries -> Nat]
    /\ crashes \in Nat

New == [status |-> "queued", attempts |-> 0, due |-> "none"]

\* The first message of a delivery is sent after the commit, best effort.
Init ==
    /\ row = [d \in Deliveries |-> New]
    /\ queue \in [Deliveries -> 0..1]
    /\ work \in [Workers -> {[at |-> "idle", of |-> d, copy |-> New] : d \in Deliveries}]
    /\ sweep = [s \in Sweepers |-> [found |-> {}, enqueued |-> {}]]
    /\ Lock!Init
    /\ replay = [d \in Deliveries |-> Nobody]
    /\ accepted = [d \in Deliveries |-> 0]
    /\ excuse = [d \in Deliveries |-> 0]
    /\ crashes = 0

-----------------------------------------------------------------------------
(* execute_notification_delivery *)

Open == {"queued", "failed"}

Locked(d) == \E w \in Workers : work[w].at \in {"sending", "accepted", "refused", "rejected"} /\ work[w].of = d

\* The row was settled since this worker read it.
Stale(w) == work[w].copy.status \in Open /\ row[work[w].of].status \notin Open

Enqueue(d) == queue' = [queue EXCEPT ![d] = @ + 1]
Done(w) == work' = [work EXCEPT ![w].at = "idle", ![w].copy = New]
Excused(w) == excuse' = [excuse EXCEPT ![work[w].of] = IF Stale(w) THEN @ + 1 ELSE @]

\* Fault: the status of the row is not looked at.
LoadAnyStatus(w, d) ==
    /\ work[w].at = "idle"
    /\ queue[d] > 0
    /\ queue' = [queue EXCEPT ![d] = @ - 1]
    /\ work' = [work EXCEPT ![w] = [at |-> "loaded", of |-> d, copy |-> row[d]]]
    /\ UNCHANGED <<row, sweep, lock, replay, accepted, excuse, crashes>>

\* A row that is neither queued nor failed is left alone.
Load(w, d) ==
    /\ work[w].at = "idle"
    /\ queue[d] > 0
    /\ queue' = [queue EXCEPT ![d] = @ - 1]
    /\ IF row[d].status \in Open
       THEN work' = [work EXCEPT ![w] = [at |-> "loaded", of |-> d, copy |-> row[d]]]
       ELSE UNCHANGED work
    /\ UNCHANGED <<row, sweep, lock, replay, accepted, excuse, crashes>>

DeadLetter(r) == [r EXCEPT !.status = "dead_lettered", !.due = "none"]

\* mark_for_retry on the copy: a status that was "failed" already is not written.
Retry(r, copy) ==
    [status |-> IF copy.status = "failed" THEN r.status ELSE "failed",
     attempts |-> copy.attempts + 1, due |-> "later"]

\* Fault: one attempt too many.
AfterFailureLate(r, copy) ==
    IF copy.attempts + 1 > MaxRetries THEN DeadLetter(r) ELSE Retry(r, copy)

AfterFailure(r, copy) ==
    IF copy.attempts + 1 >= MaxRetries THEN DeadLetter(r) ELSE Retry(r, copy)

\* Consent revoked or preference off: dead-lettered or skipped by id.
Refuse(w) ==
    LET d == work[w].of
    IN  /\ work[w].at = "loaded"
        /\ ~Locked(d)
        /\ \/ row' = [row EXCEPT ![d] = DeadLetter(@)]
           \/ row' = [row EXCEPT ![d].status = "skipped"]
        /\ Excused(w)
        /\ Done(w)
        /\ UNCHANGED <<queue, sweep, lock, replay, accepted, crashes>>

\* Fault: a deferral is not counted (increment_attempt left out).
DeferUncounted(w) ==
    LET d == work[w].of
    IN  /\ work[w].at = "loaded"
        /\ ~Locked(d)
        /\ row' = [row EXCEPT ![d] = [AfterFailure(@, work[w].copy) EXCEPT !.attempts = work[w].copy.attempts]]
        /\ Excused(w)
        /\ Done(w)
        /\ UNCHANGED <<queue, sweep, lock, replay, accepted, crashes>>

\* The channel's quota is exhausted or its breaker open: counts as an attempt.
Defer(w) ==
    LET d == work[w].of
    IN  /\ work[w].at = "loaded"
        /\ ~Locked(d)
        /\ row' = [row EXCEPT ![d] = AfterFailure(@, work[w].copy)]
        /\ Excused(w)
        /\ Done(w)
        /\ UNCHANGED <<queue, sweep, lock, replay, accepted, crashes>>

\* The flush of attempt_count waits for the row, and does not look at its status again.
Start(w) ==
    /\ work[w].at = "loaded"
    /\ ~Locked(work[w].of)
    /\ work' = [work EXCEPT ![w].at = "sending"]
    /\ Excused(w)
    /\ UNCHANGED <<row, queue, sweep, lock, replay, accepted, crashes>>

\* The provider takes the message, or fails for now, or for good.
Send(w) ==
    /\ work[w].at = "sending"
    /\ \E result \in {"accepted", "refused", "rejected"} :
        /\ work' = [work EXCEPT ![w].at = result]
        /\ accepted' = [accepted EXCEPT ![work[w].of] =
                          IF result = "accepted" THEN @ + 1 ELSE @]
    /\ UNCHANGED <<row, queue, sweep, lock, replay, excuse, crashes>>

\* Fault: an exception of the channel passes for success.
SettleUnchecked(w) ==
    LET d == work[w].of
        copy == work[w].copy
    IN  /\ \/ /\ work[w].at \in {"accepted", "refused"}
              /\ row' = [row EXCEPT ![d].status = "sent", ![d].attempts = copy.attempts + 1]
           \/ /\ work[w].at = "refused"
              /\ row' = [row EXCEPT ![d] = [AfterFailure(@, copy) EXCEPT
                                              !.attempts = copy.attempts + 1]]
           \/ /\ work[w].at = "rejected"
              /\ row' = [row EXCEPT ![d] = [DeadLetter(@) EXCEPT
                                              !.attempts = copy.attempts + 1]]
        /\ Done(w)
        /\ UNCHANGED <<queue, sweep, lock, replay, accepted, excuse, crashes>>

Settle(w) ==
    LET d == work[w].of
        copy == work[w].copy
    IN  /\ \/ /\ work[w].at = "accepted"
              /\ row' = [row EXCEPT ![d].status = "sent", ![d].attempts = copy.attempts + 1]
           \/ /\ work[w].at = "refused"
              /\ row' = [row EXCEPT ![d] = [AfterFailure(@, copy) EXCEPT
                                              !.attempts = copy.attempts + 1]]
           \/ /\ work[w].at = "rejected"
              /\ row' = [row EXCEPT ![d] = [DeadLetter(@) EXCEPT
                                              !.attempts = copy.attempts + 1]]
        /\ Done(w)
        /\ UNCHANGED <<queue, sweep, lock, replay, accepted, excuse, crashes>>

\* The worker is lost: the transaction is rolled back and the broker delivers the message
\* again (acks_late), except when it was the time limit that ended the task.
Crash(w) ==
    LET d == work[w].of
    IN  /\ work[w].at # "idle"
        /\ crashes < MaxCrashes
        /\ crashes' = crashes + 1
        /\ Enqueue(d) \/ UNCHANGED queue
        /\ excuse' = [excuse EXCEPT ![d] = IF work[w].at = "accepted" THEN @ + 1 ELSE @]
        /\ Done(w)
        /\ UNCHANGED <<row, sweep, lock, replay, accepted>>

-----------------------------------------------------------------------------
(* sweep_retry_deliveries *)

\* Under the lock: the rows whose retry is due.
SweepRead(s) ==
    LET ready == {d \in Deliveries : row[d].status \in Open /\ row[d].due = "now"}
    IN  /\ ready # {}
        /\ Lock!Acquire(s)
        /\ sweep' = [sweep EXCEPT ![s] = [found |-> ready, enqueued |-> {}]]
        /\ UNCHANGED <<row, queue, work, replay, accepted, excuse, crashes>>

SweepEnqueue(s, d) ==
    /\ d \in sweep[s].found
    /\ queue[d] < MaxMessages
    /\ Enqueue(d)
    /\ sweep' = [sweep EXCEPT ![s].found = @ \ {d}, ![s].enqueued = @ \cup {d}]
    /\ UNCHANGED <<row, work, lock, replay, accepted, excuse, crashes>>

\* One UPDATE by id, which waits for the rows that are being sent.
SweepClear(s) ==
    /\ sweep[s].found = {}
    /\ sweep[s].enqueued # {}
    /\ \A d \in sweep[s].enqueued : ~Locked(d)
    /\ row' = [d \in Deliveries |-> IF d \in sweep[s].enqueued
                                    THEN [row[d] EXCEPT !.due = "none"] ELSE row[d]]
    /\ Lock!Release(s)
    /\ sweep' = [sweep EXCEPT ![s].enqueued = {}]
    /\ UNCHANGED <<queue, work, replay, accepted, excuse, crashes>>

SweepDies(s) ==
    /\ crashes < MaxCrashes
    /\ crashes' = crashes + 1
    /\ Lock!Die(s)
    /\ sweep' = [sweep EXCEPT ![s] = [found |-> {}, enqueued |-> {}]]
    /\ UNCHANGED <<row, queue, work, replay, accepted, excuse>>

\* The lock's key expires under the sweep, or after it died.
LockExpires ==
    /\ Lock!Expire
    /\ UNCHANGED <<row, queue, work, sweep, replay, accepted, excuse, crashes>>

\* The backoff of a failed row has passed.
Due(d) ==
    /\ row[d].due = "later"
    /\ row' = [row EXCEPT ![d].due = "now"]
    /\ UNCHANGED <<queue, work, sweep, lock, replay, accepted, excuse, crashes>>

-----------------------------------------------------------------------------
(* reconcile_stale_deliveries: only queued and sent rows *)

ReconcileQueued(d) ==
    /\ row[d].status = "queued"
    /\ IF row[d].attempts >= MaxRetries
       THEN ~Locked(d) /\ row' = [row EXCEPT ![d] = DeadLetter(@)] /\ UNCHANGED queue
       ELSE queue[d] < MaxMessages /\ Enqueue(d) /\ UNCHANGED row
    /\ UNCHANGED <<work, sweep, lock, replay, accepted, excuse, crashes>>

ReconcileSent(d) ==
    /\ row[d].status = "sent"
    /\ ~Locked(d)
    /\ row' = [row EXCEPT ![d].status = "delivered"]
    /\ UNCHANGED <<queue, work, sweep, lock, replay, accepted, excuse, crashes>>

-----------------------------------------------------------------------------
(* replay_delivery *)

Replayable == {"failed", "dead_lettered", "skipped"}

ReplayRead(d) ==
    /\ replay[d] = Nobody
    /\ row[d].status \in Replayable
    /\ excuse[d] < MaxReplays
    /\ replay' = [replay EXCEPT ![d] = row[d]]
    /\ UNCHANGED <<row, queue, work, sweep, lock, accepted, excuse, crashes>>

\* The columns that differ from the copy are reset; the message is sent best effort.
ReplayCommit(d) ==
    /\ replay[d] # Nobody
    /\ ~Locked(d)
    /\ row' = [row EXCEPT ![d] =
                 [status |-> "queued",
                  attempts |-> IF replay[d].attempts # 0 THEN 0 ELSE @.attempts,
                  due |-> IF replay[d].due # "none" THEN "none" ELSE @.due]]
    /\ Enqueue(d) \/ UNCHANGED queue
    /\ replay' = [replay EXCEPT ![d] = Nobody]
    /\ excuse' = [excuse EXCEPT ![d] = @ + 1]
    /\ UNCHANGED <<work, sweep, lock, accepted, crashes>>

-----------------------------------------------------------------------------
Step(w) == Refuse(w) \/ Defer(w) \/ Start(w) \/ Send(w) \/ Settle(w)

Next ==
    \/ \E w \in Workers :
        \/ \E d \in Deliveries : Load(w, d)
        \/ Step(w)
        \/ Crash(w)
    \/ \E s \in Sweepers :
        \/ SweepRead(s)
        \/ \E d \in Deliveries : SweepEnqueue(s, d)
        \/ SweepClear(s)
        \/ SweepDies(s)
    \/ LockExpires
    \/ \E d \in Deliveries :
        \/ Due(d)
        \/ ReconcileQueued(d)
        \/ ReconcileSent(d)
        \/ ReplayRead(d)
        \/ ReplayCommit(d)

\* Workers take messages and finish tasks, a sweep that began goes on, the beat starts
\* sweeps and reconciliations again and again, keys and backoffs expire.
Fairness ==
    /\ \A w \in Workers :
        /\ \A d \in Deliveries : WF_vars(Load(w, d))
        /\ WF_vars(Step(w))
    /\ \A s \in Sweepers :
        /\ WF_vars(SweepRead(s))
        /\ \A d \in Deliveries : WF_vars(SweepEnqueue(s, d))
        /\ WF_vars(SweepClear(s))
    /\ WF_vars(LockExpires)
    /\ \A d \in Deliveries : WF_vars(Due(d)) /\ WF_vars(ReconcileQueued(d))

Spec == Init /\ [][Next]_vars
FairSpec == Spec /\ Fairness

-----------------------------------------------------------------------------
(* Properties *)

\* A delivery shown as sent or delivered was taken by its provider, however many tasks
\* worked on it (mark_delivery_ids_sent writes by id, whatever the row has become).
SentWasAccepted ==
    \A d \in Deliveries : row[d].status \in {"sent", "delivered"} => accepted[d] > 0

\* A recipient gets a message a second time only for a reason: a replay, a task that died
\* after the send, or a task that began on a copy read before another one settled the row.
EveryRepeatHasAReason == \A d \in Deliveries : accepted[d] <= 1 + excuse[d]

\* The sweep whose lock has not expired holds it, so a second sweep begins only after an
\* overrun.
HolderKeepsLock == Lock!HolderKeepsKey

\* A failed row that nothing will pick up again: no date, no message, no task.
Stranded(d) ==
    /\ row[d].status = "failed"
    /\ row[d].due = "none"
    /\ queue[d] = 0
    /\ \A w \in Workers : work[w].at # "idle" => work[w].of # d

Settled(d) == row[d].status \in Statuses \ Open

\* Every delivery is settled in the end, or is stranded: nothing retries for ever.
EventuallySettled == \A d \in Deliveries : <>[](Settled(d) \/ Stranded(d))
=============================================================================
