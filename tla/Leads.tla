------------------------------- MODULE Leads -------------------------------
(***************************************************************************)
(* Leads and the officers they are given to (lead_service,                 *)
(* assignment_service, assignment_tasks, lead_reopen_service).             *)
(*                                                                         *)
(* A request works on a copy: get_lead_for_user loads the lead without a   *)
(* lock, the locked SELECT that follows hands back the same object, and    *)
(* the flush writes the columns that differ from it. The task that gives a *)
(* lead to an officer starts from nothing: it locks the lead without       *)
(* waiting, then the officers nobody has locked, counts, and commits.      *)
(***************************************************************************)
EXTENDS Integers, FiniteSets

CONSTANTS Leads,       \* ids of rows
          Officers, Units,
          UnitOf,      \* the unit of an officer
          Capacity,    \* max_capacity of an officer
          Requests,    \* ids of requests of people, each used once
          Workers,
          MaxRetries,  \* max_retries of the task
          Nobody

ASSUME LeadsConstants ==
    /\ IsFiniteSet(Leads)
    /\ UnitOf \in [Officers -> Units]
    /\ Capacity \in [Officers -> Nat \ {0}]
    /\ MaxRetries \in Nat
    /\ Nobody \notin Officers \cup Workers \cup Units

VARIABLES
    lead,         \* the rows: life ("absent" is an id not used yet), officer, assignment_status
    desk,         \* what an officer's account says of him
    leadLock,     \* the worker that has a lead FOR UPDATE
    officerLock,  \* the worker that has an officer FOR UPDATE
    queue,        \* messages of process_automatic_lead_assignment_task, by lead and retries
    work,         \* what a worker does with the message it took
    req,          \* what a request is about to do, with the copy it loaded
    excused       \* leads whose last message, for a reason named below, led to nothing

vars == <<lead, desk, leadLock, officerLock, queue, work, req, excused>>

Message == Leads \X (0 .. MaxRetries)
Somebody == Officers \cup {Nobody}

Row == [life : {"absent", "open", "closed"}, deleted : BOOLEAN, officer : Somebody,
        status : {"pending", "assigned", "failed", "reassign_pending"},
        unit : Units \cup {Nobody}, refused : SUBSET Officers]

Blank == [life |-> "absent", deleted |-> FALSE, officer |-> Nobody, status |-> "pending",
          unit |-> Nobody, refused |-> {}]

Idle == [at |-> "idle", lead |-> Nobody, tries |-> 0, pool |-> {}, free |-> {},
         asleep |-> {}]

\* The operations that work on a copy of the lead.
Kinds == {"assign", "reassign", "consult", "move", "delete", "restore", "claim"}

New == [at |-> "new", what |-> "none", who |-> Nobody, lead |-> Nobody, copy |-> Blank]
Done == [New EXCEPT !.at = "done"]

\* The leads that count as an officer's workload (_non_final_status_filter).
Load(o) == {l \in Leads : lead[l].officer = o /\ ~lead[l].deleted /\ lead[l].life = "open"}

Init ==
    /\ lead = [l \in Leads |-> Blank]
    /\ desk = [o \in Officers |-> "available"]
    /\ leadLock = [l \in Leads |-> Nobody]
    /\ officerLock = [o \in Officers |-> Nobody]
    /\ queue = [m \in Message |-> 0]
    /\ work = [w \in Workers |-> Idle]
    /\ req = [r \in Requests |-> New]
    /\ excused = {}

-----------------------------------------------------------------------------
(* The queue *)

\* task.delay after the commit: best effort, an error is only logged.
Dispatch(l) ==
    \/ /\ queue' = [queue EXCEPT ![<<l, 0>>] = @ + 1]
       /\ excused' = excused \ {l}
    \/ /\ excused' = excused \cup {l}
       /\ UNCHANGED queue

\* Fault: an attempt that met a lock is not repeated.
RetryNever(l, k, q, lost) == queue' = q /\ UNCHANGED excused

\* A failed attempt is retried, up to max_retries; lost is whether the lead, when there
\* are no more, stays behind without a sign.
Retry(l, k, q, lost) ==
    IF k < MaxRetries
    THEN /\ queue' = [q EXCEPT ![<<l, k + 1>>] = @ + 1]
         /\ excused' = excused \ {l}
    ELSE /\ queue' = q
         /\ excused' = IF lost THEN excused \cup {l} ELSE excused

Received(l, k) == [queue EXCEPT ![<<l, k>>] = @ - 1]

-----------------------------------------------------------------------------
(* The assignment task *)

\* The lead is not one to assign: it has an officer, is deleted or is closed. A lead that
\* is given up now and comes back later has no message any more.
AutoSkip(w, l, k) ==
    /\ work[w].at = "idle" /\ queue[<<l, k>>] > 0 /\ leadLock[l] = Nobody
    /\ lead[l].deleted \/ lead[l].officer # Nobody \/ lead[l].life # "open"
    /\ queue' = Received(l, k)
    /\ excused' = IF lead[l].officer = Nobody THEN excused \cup {l} ELSE excused
    /\ UNCHANGED <<lead, desk, leadLock, officerLock, work, req>>

\* Fault: the lead is read without a lock.
AutoLockUnlocked(w, l, k) ==
    /\ work[w].at = "idle" /\ queue[<<l, k>>] > 0
    /\ ~lead[l].deleted /\ lead[l].officer = Nobody /\ lead[l].life = "open"
    /\ queue' = Received(l, k)
    /\ work' = [work EXCEPT ![w] = [@ EXCEPT !.at = "locked", !.lead = l, !.tries = k]]
    /\ UNCHANGED <<lead, desk, leadLock, officerLock, req, excused>>

\* FOR UPDATE NOWAIT, and the row as it is now: the task's session has no copy.
AutoLock(w, l, k) ==
    /\ work[w].at = "idle" /\ queue[<<l, k>>] > 0 /\ leadLock[l] = Nobody
    /\ ~lead[l].deleted /\ lead[l].officer = Nobody /\ lead[l].life = "open"
    /\ queue' = Received(l, k)
    /\ leadLock' = [leadLock EXCEPT ![l] = w]
    /\ work' = [work EXCEPT ![w] = [@ EXCEPT !.at = "locked", !.lead = l, !.tries = k]]
    /\ UNCHANGED <<lead, desk, officerLock, req, excused>>

\* Another worker, or a request for a moment, has the row: LockContentionError.
AutoContended(w, l, k) ==
    /\ work[w].at = "idle" /\ queue[<<l, k>>] > 0
    /\ Retry(l, k, Received(l, k), TRUE)
    /\ UNCHANGED <<lead, desk, leadLock, officerLock, work, req>>

Eligible(l) == {o \in Officers : /\ desk[o] = "available"
                                 /\ UnitOf[o] = lead[l].unit
                                 /\ o \notin lead[l].refused}

Unlocked(w) == [o \in Officers |-> IF officerLock[o] = w THEN Nobody ELSE officerLock[o]]

\* Fault: the officers are read without a lock.
AutoPoolUnlocked(w, skipped) ==
    /\ work[w].at = "locked"
    /\ LET pool == Eligible(work[w].lead) \ skipped
       IN  /\ pool # {}
           /\ work' = [work EXCEPT ![w] = [@ EXCEPT !.at = "pooled", !.pool = pool]]
    /\ UNCHANGED <<lead, desk, leadLock, officerLock, queue, req, excused>>

\* FOR UPDATE SKIP LOCKED: without the officers other workers have, and without any that a
\* login or another request has locked for a moment.
AutoPool(w, skipped) ==
    /\ work[w].at = "locked"
    /\ LET l == work[w].lead
           pool == {o \in Eligible(l) : officerLock[o] = Nobody} \ skipped
       IN  /\ pool # {}
           /\ officerLock' = [o \in Officers |-> IF o \in pool THEN w ELSE officerLock[o]]
           /\ work' = [work EXCEPT ![w] = [@ EXCEPT !.at = "pooled", !.pool = pool]]
    /\ UNCHANGED <<lead, desk, leadLock, queue, req, excused>>

\* Nobody is there, or everybody is locked: the lead is marked and not tried again.
AutoNoOfficers(w) ==
    /\ work[w].at = "locked"
    /\ lead' = [lead EXCEPT ![work[w].lead].status = "failed"]
    /\ leadLock' = [leadLock EXCEPT ![work[w].lead] = Nobody]
    /\ work' = [work EXCEPT ![w] = Idle]
    /\ UNCHANGED <<desk, officerLock, queue, req, excused>>

\* The workload query. asleep is a ghost: leads of these officers that do not count now
\* and may count later, when they are reopened or restored.
AutoCount(w) ==
    /\ work[w].at = "pooled"
    /\ LET pool == work[w].pool
           free == {o \in pool : Cardinality(Load(o)) < Capacity[o]}
           asleep == {m \in Leads : lead[m].officer \in pool /\ m \notin Load(lead[m].officer)}
       IN  work' = [work EXCEPT ![w] =
                      [@ EXCEPT !.at = "counted", !.free = free, !.asleep = asleep]]
    /\ UNCHANGED <<lead, desk, leadLock, officerLock, queue, req, excused>>

\* The end of the transaction.
Finish(w) ==
    /\ leadLock' = [leadLock EXCEPT ![work[w].lead] = Nobody]
    /\ officerLock' = Unlocked(w)
    /\ work' = [work EXCEPT ![w] = Idle]

\* Which of the free officers is a matter of scores.
AutoAssign(w) ==
    /\ work[w].at = "counted"
    /\ \E o \in work[w].free :
         lead' = [lead EXCEPT ![work[w].lead] = [@ EXCEPT !.officer = o, !.status = "assigned"]]
    /\ Finish(w)
    /\ UNCHANGED <<desk, queue, req, excused>>

\* Every officer of the pool is full: the lead is marked, and tried again later.
AutoFull(w) ==
    /\ work[w].at = "counted" /\ work[w].free = {}
    /\ lead' = [lead EXCEPT ![work[w].lead].status = "failed"]
    /\ Finish(w)
    /\ Retry(work[w].lead, work[w].tries, queue, FALSE)
    /\ UNCHANGED <<desk, req>>

\* An error rolls back and is retried; a worker that dies takes its message with it
\* (messages are acknowledged when they are received).
AutoAbort(w) ==
    /\ work[w].at # "idle"
    /\ Finish(w)
    /\ \/ Retry(work[w].lead, work[w].tries, queue, TRUE)
       \/ queue' = queue /\ excused' = excused \cup {work[w].lead}
    /\ UNCHANGED <<lead, desk, req>>

-----------------------------------------------------------------------------
(* Requests that load a copy first *)

\* An officer is shown the leads he holds, a deleted lead only to be restored; a profile
\* is created by any officer of the unit when the lead has none.
Begin(r, what, who, l) ==
    /\ req[r].at = "new" /\ lead[l].life # "absent"
    /\ lead[l].deleted <=> what = "restore"
    /\ \/ who = Nobody /\ what # "claim"
       \/ who \in Officers /\ lead[l].officer = who /\ what \in {"reassign", "consult", "move"}
       \/ /\ who \in Officers /\ desk[who] # "gone" /\ UnitOf[who] = lead[l].unit
          /\ what = "claim" /\ lead[l].officer = Nobody /\ lead[l].life = "open"
    /\ req' = [req EXCEPT ![r] = [at |-> "loaded", what |-> what, who |-> who,
                                  lead |-> l, copy |-> lead[l]]]
    /\ UNCHANGED <<lead, desk, leadLock, officerLock, queue, work, excused>>

\* What the unit of work writes: the columns that differ from the copy.
Flush(row, copy, new) ==
    [life    |-> IF new.life = copy.life THEN row.life ELSE new.life,
     deleted |-> IF new.deleted = copy.deleted THEN row.deleted ELSE new.deleted,
     officer |-> IF new.officer = copy.officer THEN row.officer ELSE new.officer,
     status  |-> IF new.status = copy.status THEN row.status ELSE new.status,
     unit    |-> IF new.unit = copy.unit THEN row.unit ELSE new.unit,
     refused |-> IF new.refused = copy.refused THEN row.refused ELSE new.refused]

\* The row's lock is free; what the guards read is the copy.
Commit(r, what, row) ==
    /\ req[r].at = "loaded" /\ req[r].what = what
    /\ leadLock[req[r].lead] = Nobody
    /\ lead' = [lead EXCEPT ![req[r].lead] = row]
    /\ req' = [req EXCEPT ![r] = Done]
    /\ UNCHANGED <<desk, leadLock, officerLock, work>>

\* An officer written to the row is a reference to his own, which must not be locked.
Write(r, what, new) ==
    /\ new.officer \notin {Nobody, req[r].copy.officer} => officerLock[new.officer] = Nobody
    /\ Commit(r, what, Flush(lead[req[r].lead], req[r].copy, new))

Mine(r) ==
    /\ req[r].at = "loaded"
    /\ req[r].who \in Officers => desk[req[r].who] # "gone" /\ req[r].copy.officer = req[r].who

\* assign_lead_manually, bulk_assign. On an outdated copy that already shows this officer
\* only the status is written, and the lead may be left assigned to nobody.
Assign(r, o) ==
    LET copy == req[r].copy
    IN  /\ copy.life = "open" /\ desk[o] # "gone" /\ UnitOf[o] = copy.unit
        /\ officerLock[o] = Nobody
        /\ Write(r, "assign", [copy EXCEPT !.officer = o, !.status = "assigned"])
        /\ excused' = excused \cup {l \in {req[r].lead} : lead'[l].officer = Nobody}
        /\ UNCHANGED queue

\* process_officer_action: an officer gives the lead back and is not asked again.
Reassign(r) ==
    LET copy == req[r].copy
    IN  /\ copy.life = "open" /\ Mine(r)
        /\ Write(r, "reassign",
                 [copy EXCEPT !.officer = Nobody, !.status = "reassign_pending",
                              !.refused = @ \cup (Officers \cap {req[r].who})])
        /\ Dispatch(req[r].lead)

\* add_consultation and the action reject: the lead gets another status, final or not,
\* unless the copy says it is closed.
Consult(r) ==
    /\ Mine(r)
    /\ \E life \in {"open", "closed"} :
          /\ req[r].copy.life = "open" \/ life = lead[req[r].lead].life
          /\ Commit(r, "consult", [lead[req[r].lead] EXCEPT !.life = life])
    /\ UNCHANGED <<queue, excused>>

\* update_lead with an offering of another unit.
Keeps(copy, u) ==
    /\ copy.officer # Nobody /\ copy.officer \notin copy.refused
    /\ desk[copy.officer] = "available" /\ UnitOf[copy.officer] = u

Move(r, u) ==
    LET copy == req[r].copy
    IN  /\ u # copy.unit /\ Mine(r)
        /\ \/ /\ Keeps(copy, u)
              /\ Write(r, "move", [copy EXCEPT !.unit = u])
              /\ UNCHANGED <<queue, excused>>
           \/ /\ ~Keeps(copy, u)
              /\ Write(r, "move", [copy EXCEPT !.unit = u, !.officer = Nobody,
                                              !.status = "pending"])
              /\ Dispatch(req[r].lead)

Delete(r) ==
    /\ Write(r, "delete", [req[r].copy EXCEPT !.deleted = TRUE])
    /\ UNCHANGED <<queue, excused>>

\* The status is computed again from the consultations that come back.
Restore(r) ==
    /\ \E life \in {"open", "closed"} :
          Commit(r, "restore", [lead[req[r].lead] EXCEPT !.deleted = FALSE, !.life = life])
    /\ UNCHANGED <<queue, excused>>

\* create_profile gives a lead without officer to the officer who creates the profile.
ClaimByProfile(r) ==
    /\ req[r].who \in Officers /\ desk[req[r].who] # "gone"
    /\ Write(r, "claim", [req[r].copy EXCEPT !.officer = req[r].who])
    /\ UNCHANGED <<queue, excused>>

\* A refusal, a failure or a crash: nothing is written.
GiveUp(r) ==
    /\ req[r].at = "loaded"
    /\ req' = [req EXCEPT ![r] = Done]
    /\ UNCHANGED <<lead, desk, leadLock, officerLock, queue, work, excused>>

-----------------------------------------------------------------------------
(* Operations that read what they write under its lock *)

Answer(r) == req[r].at = "new" /\ req' = [req EXCEPT ![r] = Done]

Create(l, u) ==
    /\ lead[l].life = "absent"
    /\ \/ /\ \E o \in Officers :   \* the creator, or the manager of the referrer
                /\ UnitOf[o] = u /\ desk[o] # "gone" /\ officerLock[o] = Nobody
                /\ lead' = [lead EXCEPT ![l] = [Blank EXCEPT !.life = "open", !.unit = u,
                                                  !.officer = o, !.status = "assigned"]]
          /\ UNCHANGED <<queue, excused>>
       \/ /\ lead' = [lead EXCEPT ![l] = [Blank EXCEPT !.life = "open", !.unit = u]]
          /\ Dispatch(l)
       \/ /\ lead' = [lead EXCEPT ![l] = [Blank EXCEPT !.life = "open", !.unit = u]]
          /\ excused' = excused \cup {l}     \* an import or a claim: no task
          /\ UNCHANGED queue
    /\ UNCHANGED <<desk, leadLock, officerLock, work, req>>

\* The lock refreshes the copy (populate_existing).
Reopen(r, l) ==
    /\ Answer(r)
    /\ leadLock[l] = Nobody /\ ~lead[l].deleted /\ lead[l].life = "closed"
    /\ lead' = [lead EXCEPT ![l].life = "open"]
    /\ UNCHANGED <<desk, leadLock, officerLock, queue, work, excused>>

\* bulk_assign of profiles: the officer of the lead, and not its assignment_status.
AssignProfile(r, l, o) ==
    /\ Answer(r)
    /\ leadLock[l] = Nobody /\ officerLock[o] = Nobody
    /\ lead[l].life # "absent" /\ UnitOf[o] = lead[l].unit /\ desk[o] # "gone"
    /\ lead' = [lead EXCEPT ![l].officer = o]
    /\ UNCHANGED <<desk, leadLock, officerLock, queue, work, excused>>

\* Deleting users in bulk: their leads lose them, keep their assignment_status, and no
\* task is sent.
DeleteOfficer(r, o) ==
    LET his == {l \in Leads : lead[l].officer = o}
    IN  /\ Answer(r)
        /\ desk[o] # "gone" /\ officerLock[o] = Nobody
        /\ \A l \in his : leadLock[l] = Nobody
        /\ desk' = [desk EXCEPT ![o] = "gone"]
        /\ lead' = [l \in Leads |-> IF l \in his THEN [lead[l] EXCEPT !.officer = Nobody]
                                                 ELSE lead[l]]
        /\ excused' = excused \cup his
        /\ UNCHANGED <<leadLock, officerLock, queue, work>>

SetAvailability(o) ==
    /\ desk[o] # "gone" /\ officerLock[o] = Nobody
    /\ desk' = [desk EXCEPT ![o] = IF @ = "away" THEN "available" ELSE "away"]
    /\ UNCHANGED <<lead, leadLock, officerLock, queue, work, req, excused>>

\* An administrator sends the task for leads of his choice.
SendTask(r, l) ==
    /\ Answer(r) /\ lead[l].life # "absent"
    /\ Dispatch(l)
    /\ UNCHANGED <<lead, desk, leadLock, officerLock, work>>

-----------------------------------------------------------------------------
TaskStep(w) ==
    \/ \E m \in Message : \/ AutoSkip(w, m[1], m[2])
                          \/ AutoLock(w, m[1], m[2])
                          \/ AutoContended(w, m[1], m[2])
    \/ \E skipped \in SUBSET Officers : AutoPool(w, skipped)
    \/ AutoNoOfficers(w) \/ AutoCount(w)
    \/ AutoAssign(w) \/ AutoFull(w) \/ AutoAbort(w)

Request(r) ==
    \/ \E what \in Kinds, who \in Somebody, l \in Leads : Begin(r, what, who, l)
    \/ \E o \in Officers : Assign(r, o) \/ DeleteOfficer(r, o)
    \/ \E u \in Units : Move(r, u)
    \/ Reassign(r) \/ Consult(r) \/ Delete(r) \/ Restore(r)
    \/ ClaimByProfile(r) \/ GiveUp(r)
    \/ \E l \in Leads : \/ Reopen(r, l) \/ SendTask(r, l)
                        \/ \E o \in Officers : AssignProfile(r, l, o)

Next ==
    \/ \E w \in Workers : TaskStep(w)
    \/ \E r \in Requests : Request(r)
    \/ \E l \in Leads, u \in Units : Create(l, u)
    \/ \E o \in Officers : SetAvailability(o)

Spec == Init /\ [][Next]_vars

-----------------------------------------------------------------------------
(* Properties *)

\* Rows, locks, messages and what workers and requests hold have their types.
TypeOK ==
    /\ lead \in [Leads -> Row]
    /\ desk \in [Officers -> {"available", "away", "gone"}]
    /\ leadLock \in [Leads -> Workers \cup {Nobody}]
    /\ officerLock \in [Officers -> Workers \cup {Nobody}]
    /\ queue \in [Message -> Nat]
    /\ work \in [Workers -> [at : {"idle", "locked", "pooled", "counted"},
                             lead : Leads \cup {Nobody}, tries : 0 .. MaxRetries,
                             pool : SUBSET Officers, free : SUBSET Officers,
                             asleep : SUBSET Leads]]
    /\ req \in [Requests -> [at : {"new", "loaded", "done"}, what : Kinds \cup {"none"},
                             who : Somebody, lead : Leads \cup {Nobody}, copy : Row]]
    /\ excused \subseteq Leads

Gives(w, o) ==
    /\ work[w].at = "counted" /\ work'[w].at = "idle"
    /\ lead[work[w].lead].officer # o /\ lead'[work[w].lead].officer = o

\* The task gives nobody a lead beyond his capacity, whatever other workers and requests
\* do between its count and its commit; leads that were not counted and have been reopened
\* or restored since do not weigh.
AutoRespectsCapacity ==
    [][\A w \in Workers, o \in Officers :
          Gives(w, o) => Cardinality(Load(o)' \ work[w].asleep) <= Capacity[o]]_vars

\* When the task commits, the lead is still one to give away, and the officer is still
\* available, in its unit, and has not given it back before.
AutoGivesRightly ==
    [][\A w \in Workers, o \in Officers : Gives(w, o) =>
          LET l == lead[work[w].lead]
          IN  /\ l.officer = Nobody /\ ~l.deleted /\ l.life = "open"
              /\ desk[o] = "available" /\ UnitOf[o] = l.unit /\ o \notin l.refused]_vars

\* A lead that waits for an officer and does not say it failed has a message under way,
\* or its last one came to nothing in one of the ways Dispatch, Retry, AutoSkip, AutoAbort,
\* Assign, Create and DeleteOfficer name.
NobodyForgotten ==
    \A l \in Leads \ excused :
        lead[l].life = "open" /\ ~lead[l].deleted /\ lead[l].officer = Nobody
            /\ lead[l].status # "failed"
        => \/ \E k \in 0 .. MaxRetries : queue[<<l, k>>] > 0
           \/ \E w \in Workers : work[w].at # "idle" /\ work[w].lead = l

=============================================================================
