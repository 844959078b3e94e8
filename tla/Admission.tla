----------------------------- MODULE Admission ------------------------------
(***************************************************************************)
(* Places and seats: what an admission profile takes when it is submitted  *)
(* (a place in the round of its path, admission_service) and when it is    *)
(* decided (a seat of the path and of the year), by the choice engine      *)
(* (admission_choice_engine_service) or by a manager's approval, and the   *)
(* change of major, which moves a submitted profile to another path.       *)
(*                                                                         *)
(* A request is one transaction that locks its profile first.  Those that  *)
(* take seats lock one row of the configuration after another, count under *)
(* the lock and keep it until they commit: they are followed lock by lock. *)
(* All others read nothing that another profile writes, and are one step.  *)
(***************************************************************************)
EXTENDS Integers, FiniteSets, Sequences, SequencesExt, FiniteSetsExt

CONSTANTS
    Profiles,      \* ids, which bulk approval sorts
    Engine,        \* the profiles decided by the choice engine
    Billed,        \* ... of these, the ones that have a tuition fee
    FirstTerm,     \* ... for the first semester, which a change of major reprices
    Paths, Infos,  \* admission paths; offerings in a year
    InfoOf,        \* the offering of each path
    Options,       \* what can be chosen: a path with one of its subject groups
    PathOf,        \* the path of each option
    LeadInfo,      \* the offering each profile's lead asked for
    Intent,        \* the path a profile is created on
    Wishes,        \* the choices it starts with
    MaxChoices,    \* max_choices_per_profile
    RoundQuota, AdmitQuota, AnnualQuota,   \* a number or Unlimited
    Unlimited,
    Bypass,        \* whether an admin overrides the yearly quota
    Requests, Nobody

ASSUME AdmissionConstants ==
    /\ Profiles \subseteq Nat /\ IsFiniteSet(Profiles)
    /\ FirstTerm \subseteq Billed /\ Billed \subseteq Engine /\ Engine \subseteq Profiles
    /\ InfoOf \in [Paths -> Infos]
    /\ PathOf \in [Options -> Paths]
    /\ LeadInfo \in [Profiles -> Infos]
    /\ Intent \in [Profiles -> Paths]
    /\ Wishes \in [Profiles -> Seq(Options)]
    /\ MaxChoices \in Nat
    /\ RoundQuota \in [Paths -> Nat \cup {Unlimited}]
    /\ AdmitQuota \in [Paths -> Nat \cup {Unlimited}]
    /\ AnnualQuota \in [Infos -> Nat \cup {Unlimited}]
    /\ Unlimited \notin Nat
    /\ Bypass \in BOOLEAN
    /\ Nobody \notin Requests

VARIABLES
    status,
    applied,      \* applied_rules.admission_path_id
    choices,      \* options in display_order
    decision,     \* of each choice
    requested,    \* profiles whose change of major is open
    awaiting,     \* ... whose repriced fee waits for the accountant
    count,        \* submission_count of each path
    profileLock, pathLock, infoLock,
    req           \* what each request has in memory

vars == <<status, applied, choices, decision, requested, awaiting, count,
          profileLock, pathLock, infoLock, req>>
locks == <<profileLock, pathLock, infoLock>>
major == <<requested, awaiting>>

\* "overridden" holds a seat and goes on to "enrolled" as "confirmed" does: they
\* are one here.  What a withdrawal waits for is in Withdrawal.
Statuses == {"draft", "submitted", "revision_requested", "resubmitted", "rejected",
             "approved", "admitted", "waitlisted", "confirmed", "enrolled", "withdrawn"}

Occupying == {"approved", "admitted", "confirmed", "enrolled"}

Decisions == {"none", "admitted", "waitlisted", "rejected", "skip"}

Request == [at : {"idle", "publish", "promote", "approve"},
            tier : {1, 2},
            who : Profiles \cup {Nobody},
            todo : Seq(Options),
            judged : [Options -> Decisions],
            approved : SUBSET Profiles]

\* Rows, locks and requests have their types; no path counts more submissions
\* than its round has places.
TypeOK ==
    /\ status \in [Profiles -> Statuses]
    /\ applied \in [Profiles -> Paths]
    /\ choices \in [Profiles -> Seq(Options)]
    /\ decision \in [Profiles -> [Options -> Decisions]]
    /\ requested \subseteq FirstTerm
    /\ awaiting \subseteq FirstTerm
    /\ count \in [Paths -> Nat]
    /\ \A c \in Paths : RoundQuota[c] # Unlimited => count[c] <= RoundQuota[c]
    /\ profileLock \in [Profiles -> Requests \cup {Nobody}]
    /\ pathLock \in [Paths -> Requests \cup {Nobody}]
    /\ infoLock \in [Infos -> Requests \cup {Nobody}]
    /\ req \in [Requests -> Request]

Undecided == [c \in Options |-> "none"]
Idle == [at |-> "idle", tier |-> 1, who |-> Nobody, todo |-> <<>>,
         judged |-> Undecided, approved |-> {}]

Init ==
    /\ status = [p \in Profiles |-> "draft"]
    /\ applied = Intent
    /\ choices = Wishes
    /\ decision = [p \in Profiles |-> Undecided]
    /\ requested = {}
    /\ awaiting = {}
    /\ count = [c \in Paths |-> 0]
    /\ profileLock = [p \in Profiles |-> Nobody]
    /\ pathLock = [c \in Paths |-> Nobody]
    /\ infoLock = [i \in Infos |-> Nobody]
    /\ req = [q \in Requests |-> Idle]

-----------------------------------------------------------------------------
(* Transactions *)

Held(lock, q) == [x \in DOMAIN lock |-> IF lock[x] = q THEN Nobody ELSE lock[x]]

\* Commit or rollback: every lock of the request is gone.
Return(q) ==
    /\ profileLock' = Held(profileLock, q)
    /\ pathLock' = Held(pathLock, q)
    /\ infoLock' = Held(infoLock, q)
    /\ req' = [req EXCEPT ![q] = Idle]

\* The request raises, loses its connection or is the victim of a deadlock.
Fail(q) ==
    /\ req[q].at # "idle"
    /\ Return(q)
    /\ UNCHANGED <<status, applied, choices, decision, major, count>>

\* A request of one step: it finds the profile's row free and in one of the states.
Finds(p, states) == profileLock[p] = Nobody /\ status[p] \in states

Move(p, new) == status' = [status EXCEPT ![p] = new]

-----------------------------------------------------------------------------
(* The change of major *)

\* is_major_change_cycle_open.
CycleOpen(p) == p \in requested \cup awaiting

\* _major_change_cycle_blocker.
MayOpen(p) ==
    /\ p \in FirstTerm \ awaiting
    /\ status[p] \in {"submitted", "resubmitted"}

\* _assert_choice_matches_priced_major: the fee was priced for the applied path.
MatchesPrice(p) ==
    LET infos == {InfoOf[PathOf[c]] : c \in ToSet(choices[p])}
    IN  p \in FirstTerm /\ Cardinality(infos) = 1 => infos = {InfoOf[applied[p]]}

\* maybe_open_major_change_cycle.
OpenOrClear(p, allow) ==
    \/ allow /\ MayOpen(p) /\ requested' = requested \cup {p}
    \/ ~allow /\ (p \in requested => MatchesPrice(p)) /\ requested' = requested \ {p}

\* _resolve_major_change_choice_path: the paths it may return, none or one.
Resolved(p) ==
    LET admitted == {c \in ToSet(choices[p]) : decision[p][c] = "admitted"}
        chosen == IF Cardinality(admitted) = 1 THEN admitted
                  ELSE IF Len(choices[p]) = 1 THEN ToSet(choices[p]) ELSE {}
    IN  {PathOf[c] : c \in chosen}

\* reprice_for_major_change refuses another offering while a choice is admitted.
MayReprice(p, c) ==
    InfoOf[c] # InfoOf[applied[p]] =>
        \A d \in ToSet(choices[p]) : decision[p][d] # "admitted"

-----------------------------------------------------------------------------
(* Places: the round quota *)

Less(counts, c) == [counts EXCEPT ![c] = IF @ > 0 THEN @ - 1 ELSE 0]

Unclaimed(counts, c) == RoundQuota[c] # Unlimited => counts[c] < RoundQuota[c]

\* _atomic_increment_path_submission_count, from the counts left by what precedes it.
TakePlace(counts, c) ==
    /\ pathLock[c] = Nobody
    /\ Unclaimed(counts, c)
    /\ count' = [counts EXCEPT ![c] = @ + 1]

\* _commit_major_change_path_quota, and the reprice that ends the cycle: the place
\* on the old path is given back for one on the new path.
ChangePath(p) ==
    \E new \in Resolved(p) :
        /\ pathLock[applied[p]] = Nobody
        /\ MayReprice(p, new)
        /\ applied' = [applied EXCEPT ![p] = new]
        /\ TakePlace(Less(count, applied[p]), new)
        /\ requested' = requested \ {p}
        /\ awaiting' = IF InfoOf[new] = InfoOf[applied[p]] THEN awaiting ELSE awaiting \cup {p}

\* submit_and_evaluate: every submission takes a place, also one after a rollback.
Submit(p) ==
    /\ Finds(p, {"draft"})
    /\ p \in Engine => choices[p] # <<>>
    /\ IF p \in requested THEN ChangePath(p)
       ELSE TakePlace(count, applied[p]) /\ UNCHANGED <<applied, major>>
    /\ Move(p, "submitted")
    /\ UNCHANGED <<choices, decision, locks, req>>

\* resubmit_profile: the place is the one of the submission, unless the major changed.
Resubmit(p) ==
    /\ Finds(p, {"rejected", "revision_requested"})
    /\ IF p \in requested THEN ChangePath(p) ELSE UNCHANGED <<applied, major, count>>
    /\ Move(p, "resubmitted")
    /\ UNCHANGED <<choices, decision, locks, req>>

-----------------------------------------------------------------------------
(* Choices *)

\* _assert_no_finance_lock and the editable states.
Editable(p) ==
    /\ p \in Engine
    /\ Finds(p, {"draft", "revision_requested"})
    /\ p \in Billed => p \in requested

\* UNIQUE: a profile names a path with a subject group once.  Whether the round is
\* open and allows several choices is left out.
AddChoice(p, c) ==
    /\ Editable(p)
    /\ Len(choices[p]) < MaxChoices
    /\ c \notin ToSet(choices[p])
    /\ choices' = [choices EXCEPT ![p] = Append(@, c)]
    /\ UNCHANGED <<status, applied, decision, major, count, locks, req>>

DeleteChoice(p) ==
    /\ Editable(p)
    /\ \E i \in DOMAIN choices[p] :
        /\ choices' = [choices EXCEPT ![p] = RemoveAt(@, i)]
        /\ decision' = [decision EXCEPT ![p][choices[p][i]] = "none"]
    /\ UNCHANGED <<status, applied, major, count, locks, req>>

Reorder(p) ==
    /\ Editable(p)
    /\ \E order \in SetToSeqs(ToSet(choices[p])) : choices' = [choices EXCEPT ![p] = order]
    /\ UNCHANGED <<status, applied, decision, major, count, locks, req>>

-----------------------------------------------------------------------------
(* Seats: what the two gates count *)

\* check_choice_admit_capacity: the seats of a path ...
SeatsOn(c) ==
    {p \in Engine : status[p] \in Occupying
                      /\ \E o \in Options : PathOf[o] = c /\ decision[p][o] = "admitted"} \cup
    {p \in Profiles \ Engine : status[p] \in Occupying /\ applied[p] = c}

\* ... and of an offering.
SeatsUnder(i) == UNION {SeatsOn(c) : c \in {d \in Paths : InfoOf[d] = i}}

\* _count_quota_occupying_profiles counts by what the lead asked for; a bulk
\* approval sees what it has approved already.
SeatsAsked(i, approved) ==
    {p \in Profiles : LeadInfo[p] = i /\ (status[p] \in Occupying \/ p \in approved)}

Full(seats, quota) == quota # Unlimited /\ Cardinality(seats) >= quota

Within(seats, quota) == quota # Unlimited => Cardinality(seats) <= quota

-----------------------------------------------------------------------------
(* The choice engine *)

Head1(q) == Head(req[q].todo)

\* publish_result, up to the first choice; a resubmitted profile can not be published.
PublishBegin(q, p) ==
    /\ req[q].at = "idle"
    /\ p \in Engine
    /\ Finds(p, {"submitted"})
    /\ ~CycleOpen(p)
    /\ profileLock' = [profileLock EXCEPT ![p] = q]
    /\ req' = [req EXCEPT ![q] = [Idle EXCEPT !.at = "publish", !.who = p, !.todo = choices[p]]]
    /\ UNCHANGED <<status, applied, choices, decision, major, count, pathLock, infoLock>>

\* promote_waitlisted_choice: the one choice is checked again.
PromoteBegin(q, p, c) ==
    /\ req[q].at = "idle"
    /\ Finds(p, {"waitlisted"})
    /\ decision[p][c] = "waitlisted"
    /\ profileLock' = [profileLock EXCEPT ![p] = q]
    /\ req' = [req EXCEPT ![q] = [Idle EXCEPT !.at = "promote", !.who = p,
                                              !.todo = <<c>>, !.judged = decision[p]]]
    /\ UNCHANGED <<status, applied, choices, decision, major, count, pathLock, infoLock>>

Judging(q) == req[q].at \in {"publish", "promote"} /\ req[q].todo # <<>>

Judged(q, d) ==
    req' = [req EXCEPT ![q].judged[Head1(q)] = d, ![q].todo = Tail(@), ![q].tier = 1]

\* The first admission ends the cascade, the choices after it are skipped.
Admitted(q) ==
    LET c == Head1(q)
        rest == ToSet(Tail(req[q].todo))
    IN  req' = [req EXCEPT
            ![q].judged = [d \in Options |-> IF d = c THEN "admitted"
                                             ELSE IF d \in rest THEN "skip" ELSE @[d]],
            ![q].todo = <<>>]

\* evaluate_cascade: a choice may fail on eligibility or score.
FailsScore(q) ==
    /\ Judging(q)
    /\ req[q].at = "publish" /\ req[q].tier = 1
    /\ Judged(q, "rejected")
    /\ UNCHANGED <<status, applied, choices, decision, major, count, locks>>

\* A full tier waitlists the choice of a cascade; a promotion raises.
Refused(q) == req[q].at = "publish" /\ Judged(q, "waitlisted")

\* Tier 1: the offering's row is locked, then its seats are counted.
CheckAnnual(q) ==
    LET i == InfoOf[PathOf[Head1(q)]]
    IN  /\ Judging(q)
        /\ req[q].tier = 1
        /\ AnnualQuota[i] # Unlimited
        /\ infoLock[i] \in {q, Nobody}
        /\ infoLock' = [infoLock EXCEPT ![i] = q]
        /\ IF Full(SeatsUnder(i) \ {req[q].who}, AnnualQuota[i]) THEN Refused(q)
           ELSE req' = [req EXCEPT ![q].tier = 2]
        /\ UNCHANGED <<status, applied, choices, decision, major, count, profileLock, pathLock>>

\* Fault: the seats of a path are counted without its lock.
CheckPathUnlocked(q) ==
    LET c == PathOf[Head1(q)]
        free == AnnualQuota[InfoOf[c]] = Unlimited
    IN  /\ Judging(q)
        /\ req[q].tier = 2 \/ free
        /\ IF free /\ AdmitQuota[c] = Unlimited THEN TRUE ELSE pathLock[c] \in {q, Nobody}
        /\ IF Full(SeatsOn(c) \ {req[q].who}, AdmitQuota[c]) THEN Refused(q)
           ELSE Admitted(q)
        /\ UNCHANGED <<status, applied, choices, decision, major, count, profileLock, pathLock, infoLock>>

\* Tier 2: the path's row likewise.  Without any quota nothing is locked.
CheckPath(q) ==
    LET c == PathOf[Head1(q)]
        free == AnnualQuota[InfoOf[c]] = Unlimited
    IN  /\ Judging(q)
        /\ req[q].tier = 2 \/ free
        /\ IF free /\ AdmitQuota[c] = Unlimited THEN UNCHANGED pathLock
           ELSE /\ pathLock[c] \in {q, Nobody}
                /\ pathLock' = [pathLock EXCEPT ![c] = q]
        /\ IF Full(SeatsOn(c) \ {req[q].who}, AdmitQuota[c]) THEN Refused(q)
           ELSE Admitted(q)
        /\ UNCHANGED <<status, applied, choices, decision, major, count, profileLock, infoLock>>

\* The status that follows from the decisions.
Outcome(judged) ==
    IF \E c \in Options : judged[c] = "admitted" THEN "admitted"
    ELSE IF \E c \in Options : judged[c] = "waitlisted" THEN "waitlisted" ELSE "rejected"

\* Fault: a decision of an earlier publication is kept.
EngineCommitUndecided(q) ==
    /\ req[q].at \in {"publish", "promote"}
    /\ req[q].todo = <<>>
    /\ decision' = [decision EXCEPT ![req[q].who] =
                        [c \in Options |-> IF @[c] = "none" THEN req[q].judged[c] ELSE @[c]]]
    /\ Move(req[q].who, Outcome(req[q].judged))
    /\ Return(q)
    /\ UNCHANGED <<applied, choices, major, count>>

\* The decisions of all choices are written over those of an earlier publication.
EngineCommit(q) ==
    /\ req[q].at \in {"publish", "promote"}
    /\ req[q].todo = <<>>
    /\ decision' = [decision EXCEPT ![req[q].who] = req[q].judged]
    /\ Move(req[q].who, Outcome(req[q].judged))
    /\ Return(q)
    /\ UNCHANGED <<applied, choices, major, count>>

\* reject_waitlisted_choice.
RejectWaitlisted(p, c) ==
    /\ Finds(p, {"waitlisted"})
    /\ decision[p][c] = "waitlisted"
    /\ decision' = [decision EXCEPT ![p][c] = "rejected"]
    /\ Move(p, "rejected")
    /\ UNCHANGED <<applied, choices, major, count, locks, req>>

-----------------------------------------------------------------------------
(* Approval by a manager *)

\* approve_profile is a bulk_approve of one profile; bulk_approve takes them by id,
\* and keeps the lock of one it leaves out.
ApproveLock(q, p) ==
    /\ req[q].at = "idle" \/ (req[q].at = "approve" /\ req[q].tier = 1)
    /\ \A o \in Profiles : profileLock[o] = q => o < p
    /\ profileLock[p] = Nobody
    /\ profileLock' = [profileLock EXCEPT ![p] = q]
    /\ LET decidable == status[p] \in {"submitted", "resubmitted"} /\ ~CycleOpen(p)
       IN  req' = [req EXCEPT ![q].at = "approve",
                              ![q].tier = IF decidable THEN 2 ELSE 1,
                              ![q].who = IF decidable THEN p ELSE Nobody]
    /\ UNCHANGED <<status, applied, choices, decision, major, count, pathLock, infoLock>>

\* _assert_quota_or_bypass: the offering of the applied path is locked, its quota is
\* compared with the seats of the offering the lead asked for.
ApproveGate(q) ==
    LET p == req[q].who
        i == InfoOf[applied[p]]
        full == Full(SeatsAsked(LeadInfo[p], req[q].approved) \ {p}, AnnualQuota[i])
        next(who) == req' = [req EXCEPT ![q].tier = 1, ![q].who = Nobody, ![q].approved = @ \cup who]
    IN  /\ req[q].at = "approve" /\ req[q].tier = 2
        /\ infoLock[i] \in {q, Nobody}
        /\ infoLock' = [infoLock EXCEPT ![i] = q]
        /\ \/ (full => Bypass) /\ next({p})
           \/ full /\ next({})
        /\ UNCHANGED <<status, applied, choices, decision, major, count, profileLock, pathLock>>

ApproveCommit(q) ==
    /\ req[q].at = "approve" /\ req[q].tier = 1
    /\ status' = [p \in Profiles |-> IF p \in req[q].approved THEN "approved" ELSE status[p]]
    /\ Return(q)
    /\ UNCHANGED <<applied, choices, decision, major, count>>

\* The applicant's confirmation, or override_profile of one that was approved.
Accept(p) ==
    /\ Finds(p, {"approved", "admitted"})
    /\ Move(p, "confirmed")
    /\ UNCHANGED <<applied, choices, decision, major, count, locks, req>>

\* finalize: the gate again, for a profile that has its seat.
Enroll(p) ==
    LET i == InfoOf[applied[p]]
        others == SeatsAsked(LeadInfo[p], {}) \ {p}
    IN  /\ Finds(p, {"confirmed"})
        /\ infoLock[i] = Nobody
        /\ ~CycleOpen(p)
        /\ Within(others, AnnualQuota[i]) \/ Bypass
        /\ Move(p, "enrolled")
        /\ UNCHANGED <<applied, choices, decision, major, count, locks, req>>

-----------------------------------------------------------------------------
(* Other moves of a profile *)

\* reject_profile.
Reject(p) ==
    /\ Finds(p, {"submitted", "resubmitted", "revision_requested"})
    /\ Move(p, "rejected")
    /\ UNCHANGED <<applied, choices, decision, major, count, locks, req>>

RequestRevision(p, allow) ==
    /\ Finds(p, {"submitted", "resubmitted"})
    /\ OpenOrClear(p, allow)
    /\ Move(p, "revision_requested")
    /\ UNCHANGED <<applied, choices, decision, awaiting, count, locks, req>>

\* Fault: a rollback gives the place back although the next change of major does it too.
RollbackReturning(p, allow) ==
    /\ Finds(p, Statuses \ {"enrolled", "withdrawn"})
    /\ OpenOrClear(p, allow)
    /\ Move(p, "draft")
    /\ count' = Less(count, applied[p])
    /\ UNCHANGED <<applied, choices, decision, awaiting, locks, req>>

\* admin_rollback_profile: neither the place nor the decisions are taken back.
Rollback(p, allow) ==
    /\ Finds(p, Statuses \ {"enrolled", "withdrawn"})
    /\ OpenOrClear(p, allow)
    /\ Move(p, "draft")
    /\ UNCHANGED <<applied, choices, decision, awaiting, count, locks, req>>

\* confirm_major_change, by the accountant.
ConfirmMajorChange(p) ==
    /\ p \in awaiting
    /\ profileLock[p] = Nobody
    /\ awaiting' = awaiting \ {p}
    /\ UNCHANGED <<status, applied, choices, decision, requested, count, locks, req>>

\* withdraw_profile ends the change of major; the place stays taken.  A withdrawal
\* that is cancelled while it waits for its refunds leaves a draft.
Withdraw(p, to) ==
    /\ Finds(p, {"draft", "submitted", "revision_requested", "resubmitted", "rejected",
                 "waitlisted"})
    /\ requested' = requested \ {p}
    /\ awaiting' = awaiting \ {p}
    /\ Move(p, to)
    /\ UNCHANGED <<applied, choices, decision, count, locks, req>>

\* An admitted profile is withdrawn at once and its seat is free.
GiveUpSeat(p) ==
    /\ Finds(p, {"admitted"})
    /\ Move(p, "withdrawn")
    /\ UNCHANGED <<applied, choices, decision, major, count, locks, req>>

-----------------------------------------------------------------------------
Next ==
    \/ \E p \in Profiles :
         \/ Submit(p) \/ Resubmit(p) \/ DeleteChoice(p) \/ Reorder(p) \/ Accept(p) \/ Enroll(p)
         \/ Reject(p) \/ ConfirmMajorChange(p)
         \/ \E c \in Options : AddChoice(p, c) \/ RejectWaitlisted(p, c)
         \/ \E allow \in BOOLEAN : RequestRevision(p, allow) \/ Rollback(p, allow)
         \/ GiveUpSeat(p)
         \/ \E to \in {"withdrawn", "draft"} : Withdraw(p, to)
    \/ \E q \in Requests :
         \/ \E p \in Profiles : PublishBegin(q, p) \/ ApproveLock(q, p)
         \/ \E p \in Profiles, c \in Options : PromoteBegin(q, p, c)
         \/ FailsScore(q) \/ CheckAnnual(q) \/ CheckPath(q) \/ EngineCommit(q)
         \/ ApproveGate(q) \/ ApproveCommit(q) \/ Fail(q)

Spec == Init /\ [][Next]_vars

-----------------------------------------------------------------------------
InPlay == Statuses \ {"draft", "withdrawn"}

\* However submissions, changes of major, rollbacks and withdrawals follow each
\* other, no more profiles are in play on a path than its round has places.
PlacesWithinRoundQuota ==
    \A c \in Paths : Within({p \in Profiles : status[p] \in InPlay /\ applied[p] = c}, RoundQuota[c])

\* The seats whose decision takes the lock under which the engine counts.
Guarded(c) ==
    {p \in SeatsOn(c) : \/ status[p] = "admitted"
                        \/ /\ AnnualQuota[InfoOf[c]] # Unlimited
                           /\ InfoOf[applied[p]] = InfoOf[c]}

GuardedUnder(i) == UNION {Guarded(c) : c \in {d \in Paths : InfoOf[d] = i}}

\* When the engine admits, the seat is still free at the commit, on the path and in
\* the year, although other cascades, promotions and approvals ran since the count.
EngineSeatWasFree ==
    [][\A p \in Profiles, c \in Options :
         status[p] # "admitted" /\ status'[p] = "admitted" /\ decision'[p][c] = "admitted" =>
            /\ Within(Guarded(PathOf[c])', AdmitQuota[PathOf[c]])
            /\ Within(GuardedUnder(InfoOf[PathOf[c]])', AnnualQuota[InfoOf[PathOf[c]]])]_vars

\* A published status says what its choices say, also after rollbacks, edits and a
\* second publication; and nobody holds or waits for a seat while the money of a
\* change of major is open.
DecisionsStand ==
    \A p \in Profiles :
        LET chosen(d) == {c \in ToSet(choices[p]) : decision[p][c] = d}
        IN  /\ status[p] = "admitted" => Cardinality(chosen("admitted")) = 1
            /\ status[p] = "waitlisted" => chosen("admitted") = {} /\ chosen("waitlisted") # {}
            /\ status[p] \in Occupying \cup {"waitlisted"} => ~CycleOpen(p)

\* Without an override the yearly quota bounds the seats of an offering, whichever
\* gate gave them.
AnnualQuotaHolds == \A i \in Infos : Within(SeatsUnder(i), AnnualQuota[i])
=============================================================================
