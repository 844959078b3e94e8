------------------------------ MODULE Outbox ------------------------------
(***************************************************************************)
(* The transactional outbox of notifications: dispatch_event inserts a row *)
(* in the caller's transaction; every 30 seconds a worker claims a batch   *)
(* of rows under a lease, dispatches each in a transaction of its own and  *)
(* finalizes the batch (tasks/notification_outbox_tasks.py).  dispatch()   *)
(* is modelled for one recipient of each row: the cooldown key in Redis,   *)
(* which no rollback gives back, and the look-up for a notification with   *)
(* the same dedupe key, which no constraint of the database backs.  For a  *)
(* user the key is taken first, by SET NX; for a contact outside the       *)
(* system it is looked at first and set after the insert.                  *)
(***************************************************************************)
EXTENDS Naturals, FiniteSets

CONSTANTS
    Rows,           \* outbox rows, one per idempotency key
    Poison,         \* the rows whose event_code no longer exists
    External,       \* the rows whose recipient is a contact outside the system
    Dispatchers,
    MaxAttempts,
    BatchLimit,
    RateLimit,      \* may a recipient be over the hourly limit?
    NoRow           \* in no dispatcher's hands

ASSUME OutboxConstants ==
    /\ Poison \subseteq Rows
    /\ MaxAttempts \in Nat \ {0}
    /\ BatchLimit \in Nat \ {0}
    /\ External \subseteq Rows
    /\ RateLimit \in BOOLEAN
    /\ NoRow \notin Rows

VARIABLES
    outbox,     \* the table notification_outbox
    persisted,  \* how many times a row's notifications were committed
    cooled,     \* the rows whose cooldown key exists in Redis
    todo,       \* of each worker: the claimed rows it has not begun
    checked,    \* ... the row whose contact was neither in cooldown nor notified before
    writing,    \* ... the row whose inserts wait for their commit
    results,    \* ... the outcome of the rows it has finished
    overran     \* ghost: the rows whose lease ran out in a worker's hands

outboxVars == <<outbox, persisted, cooled, todo, checked, writing, results, overran>>

OutboxRow == [status : {"absent", "pending", "dispatched", "archived"},
              attempts : 0..MaxAttempts, leased : BOOLEAN]

\* leased: claimed_until lies in the future.  A row is claimed at most MaxAttempts
\* times.
OutboxTypeOK ==
    /\ outbox \in [Rows -> OutboxRow]
    /\ persisted \in [Rows -> Nat]
    /\ cooled \subseteq Rows
    /\ todo \in [Dispatchers -> SUBSET Rows]
    /\ checked \in [Dispatchers -> External \cup {NoRow}]
    /\ writing \in [Dispatchers -> Rows \cup {NoRow}]
    /\ overran \subseteq Rows
    /\ results \in [Dispatchers -> [ok : SUBSET Rows, error : SUBSET Rows]]

NoResults == [ok |-> {}, error |-> {}]

OutboxInit ==
    /\ outbox = [r \in Rows |->
                [status |-> "absent", attempts |-> 0, leased |-> FALSE]]
    /\ persisted = [r \in Rows |-> 0]
    /\ cooled = {}
    /\ todo = [w \in Dispatchers |-> {}]
    /\ checked = [w \in Dispatchers |-> NoRow]
    /\ writing = [w \in Dispatchers |-> NoRow]
    /\ results = [w \in Dispatchers |-> NoResults]
    /\ overran = {}

-----------------------------------------------------------------------------
\* The rows of the batch a worker is at.
InHand(w) ==
    todo[w] \cup ({checked[w], writing[w]} \ {NoRow}) \cup results[w].ok \cup results[w].error

\* dispatch_event, in the transaction of the state change it reports.
Insert(r) ==
    /\ outbox[r].status = "absent"
    /\ outbox' = [outbox EXCEPT ![r].status = "pending"]
    /\ UNCHANGED <<persisted, cooled, todo, checked, writing, results, overran>>

\* Fault: attempts are counted but do not bound the claims.
ClaimableForEver == {r \in Rows : outbox[r].status = "pending" /\ ~outbox[r].leased}

Claimable ==
    {r \in Rows : /\ outbox[r].status = "pending"
                  /\ outbox[r].attempts < MaxAttempts
                  /\ ~outbox[r].leased}

\* Fault: a claim does not count as an attempt.
ClaimUncounted(w) ==
    /\ InHand(w) = {}
    /\ \E batch \in SUBSET Claimable :
          /\ batch # {}
          /\ Cardinality(batch) <= BatchLimit
          /\ todo' = [todo EXCEPT ![w] = batch]
          /\ outbox' = [r \in Rows |-> [outbox[r] EXCEPT !.leased = @ \/ r \in batch]]
    /\ UNCHANGED <<persisted, cooled, checked, writing, results, overran>>

\* Which rows LIMIT keeps and SKIP LOCKED passes over is left open.
Claim(w) ==
    /\ InHand(w) = {}
    /\ \E batch \in SUBSET Claimable :
          /\ batch # {}
          /\ Cardinality(batch) <= BatchLimit
          /\ todo' = [todo EXCEPT ![w] = batch]
          /\ outbox' = [r \in Rows |->
                          IF r \in batch
                          THEN [outbox[r] EXCEPT !.attempts = @ + 1, !.leased = TRUE]
                          ELSE outbox[r]]
    /\ UNCHANGED <<persisted, cooled, checked, writing, results, overran>>

\* The next row of the batch.
Take(w, r) ==
    /\ checked[w] = NoRow
    /\ writing[w] = NoRow
    /\ r \in todo[w]
    /\ todo' = [todo EXCEPT ![w] = @ \ {r}]

\* The recipient is in cooldown, over the hourly limit or was notified before:
\* dispatch returns without a word and the row counts as done.  A contact has no hourly
\* limit, and its key is not taken.
Filtered(w, r) ==
    /\ Take(w, r)
    /\ r \notin Poison
    /\ r \in cooled \/ persisted[r] > 0 \/ (RateLimit /\ r \notin External)
    /\ cooled' = cooled \cup ({r} \ External)
    /\ results' = [results EXCEPT ![w].ok = @ \cup {r}]
    /\ UNCHANGED <<outbox, persisted, checked, writing, overran>>

\* Faults: only the cooldown, or only the look-up, guards the inserts.
BeginUndeduped(w, r) ==
    /\ Take(w, r)
    /\ r \notin Poison \cup External \cup cooled
    /\ cooled' = cooled \cup {r}
    /\ writing' = [writing EXCEPT ![w] = r]
    /\ UNCHANGED <<outbox, persisted, checked, results, overran>>

BeginUncooled(w, r) ==
    /\ Take(w, r)
    /\ r \notin Poison \cup External
    /\ persisted[r] = 0
    /\ writing' = [writing EXCEPT ![w] = r]
    /\ UNCHANGED <<outbox, persisted, cooled, checked, results, overran>>

\* A user: the cooldown key is taken and no notification with the dedupe key was found.
Begin(w, r) ==
    /\ Take(w, r)
    /\ r \notin Poison \cup External
    /\ r \notin cooled
    /\ persisted[r] = 0
    /\ cooled' = cooled \cup {r}
    /\ writing' = [writing EXCEPT ![w] = r]
    /\ UNCHANGED <<outbox, persisted, checked, results, overran>>

\* A contact: no delivery with the dedupe key was found, nor a cooldown key; a Redis that
\* does not answer counts as no key.
BeginExternal(w, r) ==
    /\ Take(w, r)
    /\ r \in External \ Poison
    /\ persisted[r] = 0
    /\ checked' = [checked EXCEPT ![w] = r]
    /\ UNCHANGED <<outbox, persisted, cooled, writing, results, overran>>

\* The delivery is inserted, then the key is set: both checks may be out of date.
InsertExternal(w) ==
    /\ checked[w] # NoRow
    /\ cooled' = cooled \cup {checked[w]}
    /\ writing' = [writing EXCEPT ![w] = checked[w]]
    /\ checked' = [checked EXCEPT ![w] = NoRow]
    /\ UNCHANGED <<outbox, persisted, todo, results, overran>>

\* An error before the look-up, the cooldown key being taken or not yet; a row whose
\* event_code does not exist never gets to the key.
FailEarly(w, r) ==
    /\ Take(w, r)
    /\ cooled' \in {cooled} \cup {cooled \cup {q} : q \in {r} \ (Poison \cup External)}
    /\ results' = [results EXCEPT ![w].error = @ \cup {r}]
    /\ UNCHANGED <<outbox, persisted, checked, writing, overran>>

Commit(w) ==
    LET r == writing[w]
    IN  /\ r # NoRow
        /\ persisted' = [persisted EXCEPT ![r] = @ + 1]
        /\ writing' = [writing EXCEPT ![w] = NoRow]
        /\ results' = [results EXCEPT ![w].ok = @ \cup {r}]
        /\ UNCHANGED <<outbox, cooled, todo, checked, overran>>

\* An insert, the key of a contact or the commit fails: rolled back in the database, not
\* in Redis.
FailWriting(w) ==
    LET rows == {checked[w], writing[w]} \ {NoRow}
    IN  /\ rows # {}
        /\ checked' = [checked EXCEPT ![w] = NoRow]
        /\ writing' = [writing EXCEPT ![w] = NoRow]
        /\ results' = [results EXCEPT ![w].error = @ \cup rows]
        /\ UNCHANGED <<outbox, persisted, cooled, todo, overran>>

\* Fault: an error reopens the row.
FinalizeReopens(w) ==
    LET done == results[w]
    IN  /\ todo[w] = {}
        /\ checked[w] = NoRow /\ writing[w] = NoRow
        /\ done # NoResults
        /\ outbox' = [r \in Rows |->
                     CASE r \in done.ok ->
                            [outbox[r] EXCEPT !.status = "dispatched", !.leased = FALSE]
                       [] r \in done.error \ done.ok ->
                            [outbox[r] EXCEPT !.status = "pending", !.leased = FALSE]
                       [] OTHER -> outbox[r]]
        /\ results' = [results EXCEPT ![w] = NoResults]
        /\ UNCHANGED <<persisted, cooled, todo, checked, writing, overran>>

\* The UPDATEs name the row by its id only.
Finalize(w) ==
    LET done == results[w]
        Present(r) == outbox[r].status \in {"pending", "dispatched"}
    IN  /\ todo[w] = {}
        /\ checked[w] = NoRow /\ writing[w] = NoRow
        /\ done # NoResults
        /\ outbox' = [r \in Rows |->
                     CASE Present(r) /\ r \in done.ok ->
                            [outbox[r] EXCEPT !.status = "dispatched", !.leased = FALSE]
                       [] Present(r) /\ r \in done.error \ done.ok ->
                            [outbox[r] EXCEPT !.leased = FALSE]
                       [] OTHER -> outbox[r]]
        /\ results' = [results EXCEPT ![w] = NoResults]
        /\ UNCHANGED <<persisted, cooled, todo, checked, writing, overran>>

\* The process dies, or is killed at the hard time limit.
DispatcherCrash(w) ==
    /\ InHand(w) # {}
    /\ todo' = [todo EXCEPT ![w] = {}]
    /\ checked' = [checked EXCEPT ![w] = NoRow]
    /\ writing' = [writing EXCEPT ![w] = NoRow]
    /\ results' = [results EXCEPT ![w] = NoResults]
    /\ UNCHANGED <<outbox, persisted, cooled, overran>>

-----------------------------------------------------------------------------
\* A worker may be slower than its lease.
LeaseExpires(r) ==
    /\ outbox[r].leased
    /\ outbox' = [outbox EXCEPT ![r].leased = FALSE]
    /\ overran' = overran \cup {q \in {r} : \E w \in Dispatchers : q \in InHand(w)}
    /\ UNCHANGED <<persisted, cooled, todo, checked, writing, results>>

\* The 300 seconds of the cooldown outlast the one transaction that took the key.  The
\* key of a contact may be an earlier one, that ran out between the look and the insert.
CooldownExpires(r) ==
    /\ r \in cooled
    /\ r \in External \/ \A w \in Dispatchers : writing[w] # r
    /\ cooled' = cooled \ {r}
    /\ UNCHANGED <<outbox, persisted, todo, checked, writing, results, overran>>

\* archive_outbox_dispatched moves rows dispatched 90 days ago.
Archive(r) ==
    /\ outbox[r].status = "dispatched"
    /\ \A w \in Dispatchers : r \notin InHand(w)
    /\ outbox' = [outbox EXCEPT ![r].status = "archived"]
    /\ UNCHANGED <<persisted, cooled, todo, checked, writing, results, overran>>

-----------------------------------------------------------------------------
Dispatch(w) ==
    \/ Claim(w)
    \/ \E r \in Rows :
          Filtered(w, r) \/ Begin(w, r) \/ BeginExternal(w, r) \/ FailEarly(w, r)
    \/ InsertExternal(w)
    \/ Commit(w)
    \/ FailWriting(w)
    \/ Finalize(w)

OutboxNext ==
    \/ \E r \in Rows : Insert(r) \/ LeaseExpires(r) \/ CooldownExpires(r) \/ Archive(r)
    \/ \E w \in Dispatchers : Dispatch(w) \/ DispatcherCrash(w)

OutboxSpec == OutboxInit /\ [][OutboxNext]_outboxVars

\* Celery beat keeps starting ticks, a running task goes on, clocks advance.
OutboxFairness ==
    /\ \A w \in Dispatchers : WF_outboxVars(Dispatch(w))
    /\ \A r \in Rows : WF_outboxVars(LeaseExpires(r))

OutboxFairSpec == OutboxSpec /\ OutboxFairness

-----------------------------------------------------------------------------
(* What holds *)

\* The rows that may be persisted twice: those of a contact, once a worker was slower
\* than its lease.
MayRepeat == External \cap overran

\* Cooldown and dedupe look-up together keep two workers that hold the same row,
\* the lease of one having run out, from persisting its notifications twice; the
\* delivery to a contact is persisted once as long as no lease ran out in a worker's
\* hands, however often its transaction fails or its worker dies.
PersistedAtMostOnce == \A r \in Rows \ MayRepeat : persisted[r] <= 1

\* "No race concern for external": a contact is not sent the same event twice by two
\* workers either.
ExternalAtMostOnce == \A r \in External : persisted[r] <= 1

\* The outbox keeps the promise its callers rely on.
Promise == INSTANCE FanoutOnce WITH
    Events <- Rows,
    accepted <- {r \in Rows : outbox[r].status # "absent"},
    loose <- MayRepeat,
    fanouts <- persisted

Implements == Promise!Spec

\* Neither a stale worker's finalize nor a crash puts a dispatched row back in the
\* queue: whatever the error of the late attempt, the row stays done.
DispatchedIsFinal ==
    [][\A r \in Rows :
         outbox[r].status = "dispatched" =>
             outbox'[r].status \in {"dispatched", "archived"}]_outboxVars

\* No row is retried for ever or forgotten: it is dispatched, or its attempts are
\* spent and it waits for the manual review of the dead letters.
RowsEventuallySettled ==
    \A r \in Rows :
        outbox[r].status = "pending" ~>
            outbox[r].status # "pending" \/ outbox[r].attempts = MaxAttempts
=============================================================================
