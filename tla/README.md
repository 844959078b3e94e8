# QLTS: formal models

Specifications in TLA+ of the admission and lead management backend
(`Backend_FastAPI`), the TLC configurations that check them and the theorems
TLAPS proves about them. Paths in this text are relative to
`Backend_FastAPI/app/`.

## 1. The system

A FastAPI backend over PostgreSQL and Redis, Celery workers with a beat
scheduler, and a Next.js client. A request is one database transaction in one
SQLAlchemy session; a service returns a callback that the router runs after the
commit. Workers and requests share nothing but the database and Redis.

| Component | State | Operations | Interacts with |
|---|---|---|---|
| Fees and invoices (`fee_calculation_service`, `invoice_service`) | `fee`, `invoice` rows; `fee.paid_amount` and both status columns are derived by hand | calculate, recalculate, create, issue, cancel, penalty, nightly overdue job, waive, cancel fee, reprice for a change of major and confirm it | payments, overpayments, intents, lead projection |
| Manual payments (`payment_service`) | `payment` | record (maker), verify or reject (checker) | locks payment, invoice, fee; opens overpayment records |
| Refunds (`payment_service`) | `refund_request` | request, approve, reject, pay out | payment, invoice, fee, overpayment, withdrawal |
| Overpayments (`overpayment_service`) | `overpayment_record`, one per payment | refund, apply to an invoice, write off | refunds, two invoices and two fees |
| Payment intents (`payment_intent_service`, `gateways/`) | `payment_intent` | create, callback, expire on read | gateway (repeats and reorders callbacks), invoice, fee, payment |
| Notification outbox (`tasks/notification_outbox_tasks`, `notification_dispatcher`) | `notification_outbox`, cooldown keys in Redis, leases | insert, claim, dispatch, finalize, archive | every service that dispatches an event; deliveries |
| Deliveries (`tasks/delivery_tasks`, circuit breaker, quota, `utils/redis_lock`) | `notification_delivery`, breaker state per process, quota rows | execute, retry sweep, reconcile | providers, Redis |
| Payment import (`payment_import_service`) | import batches | import, void | the balance rules of `payment_service` |
| Withdrawal (`admission_service`) | profile status, refunds of source `withdrawal` | withdraw, cancel, finalize | refunds |
| Admission profile state machine (`admission_state_*`, `admission_service`) | profile status, version, history, `submission_count` of a path | submit, resubmit, revise, approve, reject, confirm, finalize, roll back, change of major | leads, choices, fees |
| Choices and quota (`admission_choice_*`, `admission_quota_service`) | choices, seats per path and year | decide, waitlist, promote | profile |
| Sessions (`routers/auth`, `session_service`, `user_service`, `core/deps`) | `user_session` rows, `session:*`, `blacklist:*`, `user_blacklist`, `refresh_fail` in Redis | login, refresh, logout, revoke one, the others, all; deactivate | user status |
| Leads and their assignment (`lead_service`, `assignment_service`, `tasks/assignment_tasks`, `lead_reopen_service`) | `lead` rows (officer, assignment status, officers who gave it back, deletion), the messages of the assignment task | create, assign, give back, change offering, consult, delete, restore, reopen; the task gives a lead to an officer with room | officers' accounts, Celery, profiles |
| Collaborators, commission, SMS, KPI, organization, scoring | records and reports | mostly record keeping | pipeline |
| Frontend, migrations, deployment | none of its own | | |

Hard behaviours: transactions that interleave between a read and a lock; a
locked SELECT that returns the copy the session already holds; a nightly job
that reads without locks; gateway callbacks repeated and reordered; workers that
crash or outlive their lease; a Redis key no rollback gives back; two stores
(Redis and the rows) that must say the same of a session; row locks taken in
different orders; quotas counted under one lock and given under another; messages
that are sent after the commit, best effort; long
sequences of legal operations on three kinds of money-out. `PROJECT.json`, "hazards",
lists them at their lines with the properties that would catch them.

What makes the components correct: amounts add up (an invoice holds what was
received for it, a fee what its invoices hold); no payment is paid out twice; an
overpayment is settled once; a decision is final; a dead target receives no
money; an intent shown as completed was paid; a
notification is persisted at most once, and a row is neither lost nor retried
for ever; a message is sent twice only for a reason; a withdrawal ends with the
last refund and leaves nothing behind; a revoked session stays revoked, a live
one works; nobody is admitted to a seat that is taken; nobody is given more leads than
he has room for, and a lead that waits for an officer is on its way to one.

## 2. The modules

| Module | Models |
|---|---|
| `LedgerMath` | the arithmetic the finance services share: what a posting, a refund, a credit and a recomputation do to one invoice record and one fee record, and the derived amounts of the models |
| `Ledger` | fees, invoices, manual payments, refunds, overpayments of one profile |
| `Gateway` | the online payment of one invoice, with the copies of rows a session keeps, beside manual payments and `cancel_fee` |
| `Outbox` | the outbox table, its workers, `dispatch()` for one recipient |
| `FeeAccount` | the abstract promise about one fee: a payment is received once, the fee shows what was received, and it closes only while that is nothing |
| `FanoutOnce` | the abstract promise of the outbox: an accepted event is fanned out at most once |
| `Delivery` | one external delivery after another: the executing task, the retry sweep, reconciliation, replay |
| `RedisLock` | the lock of `utils/redis_lock`; `Delivery` instantiates it for its sweeps |
| `Withdrawal` | the withdrawal of a profile with all that may happen to its money meanwhile, row lock by row lock |
| `Admission` | the places and seats of profiles: submission, change of major, choices, cascade, promotion, approval, rollback |
| `Sessions` | the sessions of one user: rows, locks, Redis keys, overlapping requests |
| `Leads` | leads, the task that gives them to officers, and the requests that change them from an outdated copy |
| `MCLedger`, `MCGateway`, `MCOutbox`, `MCDelivery`, `MCWithdrawal`, `MCAdmission`, `MCSessions`, `MCLeads` | values for the constants, symmetry, the view of the ledger |
| `LedgerMathProofs`, `LedgerProofs`, `GatewayProofs`, `NotificationProofs` (`Outbox` and `Delivery`), `SessionsProofs`, `WithdrawalProofs`, `AdmissionProofs`, `LeadsProofs` | theorems |

### Ledger

`fee`, `invoice`, `payment`, `refund`, `over` are the tables; `over` is indexed
by payment because `payment_id` is unique. A status `"absent"` is an id that is
not used yet. A service operation that decides on rows it has locked is one
action: `payment_service` locks payment, invoice, fee in this order, and
`InvoiceRepository.get_for_update` is a joined `SELECT ... FOR UPDATE` that locks
fee, profile and lead too. `mark_overdue_invoices` locks nothing, so it is
`OverdueScan` and `OverdueWrite`; neither does `recalculate_fee`, so it is
`RecalculateRead` and `RecalculateWrite` (or `RecalculateFails`), with what was read in
`recalculation`. A fee begins with `CalculateFee`, which also makes its invoices: the
only caller of `generate_invoices_for_fee` does both in one transaction. `awaiting` is
the column `awaiting_accountant_confirmation`: `RepriceForMajorChange` sets it,
`ConfirmMajorChange` clears it, and what changes an amount of the fee refuses
meanwhile. The profile stays in the process; what a withdrawal does to its money is in
`Withdrawal`. Each action carries the whole handler: a
verification updates payment, invoice, fee and opens the overpayment; cancelling
an invoice recomputes its fee; a payout closes the linked overpayment.

Abstracted: amounts are natural numbers of a unit; what names, dates, notes,
audit rows and notifications add is left out; a price is any of the amounts
(`FinalAmount` for the first one), an instalment plan any split of it; a due date is the constant set
`PastDue`; the kill-switch of penalties is the constant `PenaltyAllowed`.

### Gateway

`session` is what each running request holds: the fee and the invoice as they were when
it loaded them. `Begin` is that load, the `Commit...` actions lock, decide and write.
`Flush` writes what SQLAlchemy writes, the columns whose value differs from the copy. In
`create_intent` the copies come from `_find_replay_in_scope`, in `process_callback` from
`get_by_gateway_ref`; the fee of a callback is loaded for the first time under its lock
and is therefore fresh. Transactions that load everything under locks are one action.
Who records and who verifies a manual payment is left to `Ledger`. `Rollback` is a
refusal, a failed insert or a crash. `payment.intent_id` is UNIQUE, so a duplicated
success callback fails on its insert. `Account` reads a fee as a `FeeAccount`: what a
payment brought is its amount once it is verified, and the account is open while the fee
is not cancelled. `Lost` is the money received that the invoice does not show,
`Unrecorded` the excess no payment has on record; a session is `Outdated` when something
was posted since it loaded the invoice. `Decided` are the intents with a final status
that no running request is about to write. No start-up code registers the gateway
adapters; the flow runs once one is registered, or with the mock reference.

### Outbox

`outbox` is the table, with `leased` for a `claimed_until` in the future; `todo`,
`writing` and `results` are the progress of a worker through its batch; `cooled`
is the set of rows whose cooldown key is in Redis; `persisted` counts the commits
of a row's notifications. `dispatch()` is split where it matters: taking the
cooldown key and looking for an earlier notification (`Begin`), the inserts and
the commit (`Commit`), a failure of either (`FailEarly`, `FailWriting`), or a
recipient that is filtered out without an error (`Filtered`). `last_error` is not
kept. The model follows one recipient and channel of each row.

`External` are the rows whose recipient is a contact outside the system. Their branch of
`dispatch()` works the other way round: it looks up the cooldown key and an earlier
delivery (`BeginExternal`, the row is then in `checked`), inserts, and sets the key
after that (`InsertExternal`); the insert is visible with the same `Commit`. Nothing but
the lease keeps two workers apart there. A resolver of contacts that returns a user of
the system takes the user's branch, key first. `overran` is a ghost: the rows whose
lease ran out while a worker had them in hand. `MayRepeat` are the external ones among
them, which the properties except, and `outbox_v_external` shows why.

### Delivery and RedisLock

`row` is `notification_delivery`; `due` is `next_retry_at` (none, in the future,
past). `queue` counts the broker's messages of a delivery: the first is sent
after the commit, best effort, so it may be missing. `work` is what a task does,
with the copy of the row it loaded without a lock. Its first flush (`Start`)
takes the row lock until the commit (`Settle`), and `Send` lies in between. An
ORM write compares with the copy, a bulk UPDATE does not: that is why `Retry`
leaves a status alone that was `failed` in the copy. The quota and the circuit
breaker may refuse at any time (`Defer`). `Crash` rolls back and, with
`acks_late` and `task_reject_on_worker_lost`, gives the message back; the hard
time limit may lose it. A sweep takes the Redis lock, enqueues what is due and
then clears the dates in one UPDATE. `accepted` and `excuse` are ghosts: how
often the provider took the message, and how often there was a reason to send it
again.

### Withdrawal

One profile, its fees and their payments and refunds. A transaction that takes
several row locks is split where it takes them: `...Begin` holds the first lock
(payment, refund, batch or profile), `...Commit` finds the rest free and does
everything else, so all orders in which the real locks may be obtained are
there, and `Fail` is the rollback, also of the victim of a deadlock.
`WithdrawBegin` locks the profile and then either leaves directly (admitted) or
files refunds, cancels the empty fees and waits. `ProcessCommit` returns money
and, when nothing refundable is held, ends the withdrawal. `Admit` and `Rollback`
stand for the part of the life of a profile that `Admission` follows.

### Admission

`count` is `admission_path.submission_count`, `applied` the path in `applied_rules`,
`choices` and `decision` the choices in display order with what was decided of them. A
choice is one of `Options`, a path with a subject group (`PathOf`): a profile may choose
a path twice with two groups, but not a path with the same group twice, and not more
than `MaxChoices`. That the round is open, and takes several choices of a profile, is
left out. Requests that count seats are followed lock by lock: `publish_result` and
`promote_waitlisted_choice` take the profile, then the offering's row (`CheckAnnual`),
then the path's (`CheckPath`), and keep all of them to the commit; `approve_profile` is
a `bulk_approve` of one. All other operations lock the profile and read nothing another
profile writes, and are one action. `reviewing` and `result_published` exist only inside
`publish_result`; `overridden` is one with `confirmed`; `withdrawal_pending` is in
`Withdrawal`. Scores are a choice of the environment (`FailsScore`). `requested` and
`awaiting` are the two stages of a change of major.

### Sessions

The rows of one user's sessions, the two row locks (user, session), the Redis keys
`session:*` (`keys`), `blacklist:*` (`dead`), `user_blacklist` and `refresh_fail`, and
the progress of each request. A Redis deletion that the code makes best effort may be
lost (`Forget`). Login reads the status again under the user's lock (`LoginLock`),
refresh locks the user and then the live row (`RefreshStage`), rotates the keys
(`RefreshRotate`) and commits (`RefreshCommit`) or compensates. `Invalidate` is
`invalidate_all_sessions`, reached from a deactivation, a change of password and the
abuse counter, the last of which holds no user lock. The counter of refusals is read and
written in two calls (`CountRead`, `CountWrite`), so that refusals may be lost or pass
the limit together. `orphaned` is a ghost: rows whose keys were touched by a request
that then failed.

### Leads

`lead` is the table: `life` says whether the status is one of the final ones,
`officer` is `assigned_officer_id`, `status` the `assignment_status`, `refused`
the list of officers who gave the lead back. `desk` is what `user` and `officer`
rows say of an officer. `leadLock` and `officerLock` are the row locks that
outlive one step: those of the task, which takes the lead with NOWAIT
(`AutoLock`, or `AutoContended` when that fails), then the officers with SKIP
LOCKED (`AutoPool`, or `AutoNoOfficers`), counts (`AutoCount`) and commits
(`AutoAssign`, `AutoFull`) or rolls back (`AutoAbort`). The score that chooses
among officers with room is left to chance.

Requests of people take their lock last and hold it for a moment, so they are two
steps: `Begin` loads the lead (`get_lead_for_user`), and the second, under the
lock, decides on that copy and writes the columns that differ from it (`Flush`),
because a locked SELECT returns the object the session has. `reopen` asks for
fresh values (`populate_existing`) and is one action, and so are the operations
that find their rows and lock them in one statement. An officer who becomes a
lead's officer is referenced by it, and PostgreSQL takes a share lock on his row:
`Write` waits while the task has it.

`Dispatch` is `task.delay` after the commit, which may fail with a log entry and
nothing else; `Retry` is `self.retry`; a worker that dies takes its message with
it. `excused` is a ghost: the leads whose last message, in one of the ways the
actions name, came to nothing. `asleep` is another: the closed and deleted leads
of an officer at the time of the count.

## 3. What the runs check

| Run | Instance | Shows |
|---|---|---|
| `ledger_books` | 2 fees with 2 and 1 invoices, the second open to a change of major, 2 payments, 2 refunds, 2 users, amounts 1 and 2; nothing past due, no recalculation | amounts add up, no double payout, overpayments settled once, statuses agree with amounts, what awaits the accountant can be confirmed, decisions are final |
| `ledger_races` | 1 fee, 2 invoices of which one is past due, penalties, recalculation, 2 payments, 1 refund | `BooksHold`: amounts still add up and dead rows hold no money, with the unlocked job and the unlocked recalculation running |
| `gateway_races` | 2 intents, 1 manual payment, 2 sessions | `FeeAccounted`: the fee has every amount once and completed means paid; a cancelled fee gets no money; the invoice never shows more than was received; the fee implements `FeeAccount`; only a callback on an outdated copy loses money on the invoice (`LostByOvertakingOnly`); a final status that no running request contradicts is final (`DecidedIsFinal`) |
| `outbox_overrun` | 2 rows, one of a contact, 2 workers, 2 attempts, crashes, leases that run out under a live worker, expiring keys, fairness | at most one fan-out (of a contact's row: unless its lease ran out in a worker's hands), a dispatched row stays so, `FanoutOnce` is implemented, every row is settled |
| `sessions_races` | 1 user, 2 requests, 2 session rows, 3 refresh tokens, limit of 1 session, of 2 refusals (counted up to 2) | the limit holds, a deactivated user keeps no session, revoked rows are final, live ones can be used |
| `delivery_races` | 1 delivery, 2 workers, 1 sweep, 2 tries, 2 messages, 1 crash, 1 replay, fairness | sent means accepted, repetitions have a reason, tries are bounded, no delivery is retried for ever |
| `withdrawal_races` | 2 fees (tuition, application), 3 payments of which one is imported, 4 refunds, 2 overlapping requests | see the properties: waiting profiles have money to wait for, withdrawn ones none, refunds end with their withdrawal |
| `admission_seats` | 3 profiles (2 of the engine), 2 paths, 3 options (2 subject groups of the first path), at most 2 choices, 2 offerings, 2 requests, overrides allowed | places, seats and published decisions |
| `leads_races` | 2 leads, 2 officers in 2 units with room for one lead each, 2 requests, 2 workers, 1 retry | the task respects capacity and gives a lead only to an officer it may go to; no lead waits without a message, a worker or a named reason |
| `outbox_v_external` | as `outbox_overrun` | two workers persist the delivery to one contact after a lease ran out |
| `gateway_v_lost_update` | as `gateway_races` | a payment is lost on the invoice |
| `admission_v_annual` | as `admission_seats`, no overrides; the second profile asked for both paths | the yearly quota is exceeded by the two gates together |

The runs named `_v_` state what a comment or document of the code says and
are expected to be violated; `PROJECT.json`, "findings", quotes the lines.

Bounds. Amounts 1 and 2 against final amounts 2 and 1 give partial, exact and
excessive payments, and an excess that fits a second invoice. Two payments are
what an overpayment takes, two refunds what a double payout takes, two fees what
a transfer of credit takes. Two sessions are what a stale copy takes; a third
would only repeat the second. Two workers are what a lease overrun takes, two
attempts what a retry takes. `MaxAttempts` bounds the claims as the code does;
everything else is finite because ids are used once. `CHECK_DEADLOCK` is off
everywhere: the systems stop when all ids are used and all rows are settled.

`MCLedger` leaves out of the compared state (`VIEW`) the names of maker and
requester (with two users somebody else can always decide), the source of a refund,
and everything but the status of a rejected payment or refund: no operation reads
them, so states that differ only there have the same future. At most one
recalculation runs at a time; two of them would only repeat the overwriting that one
does beside the other operations. Payments, refunds, users, intents and sessions
are interchangeable (`SYMMETRY`); the run with liveness uses none.

`StatusesAgree` and `RepricingCanBeConfirmed` hold as long as nothing is past due, no
penalty is applied and nothing is recalculated: the nightly job and the recalculation
overwrite what was decided since their read (section 5). The `TypeOK` of `Gateway`,
`Admission` and `Leads` is proved (`TypeCorrect`), that of `Sessions` is a part of the
proved invariant, and none of them is checked again by their runs.

In `Withdrawal`, `Sessions` and `Admission` two overlapping requests are what every pair
of operations takes; a third that is one step (`RevokeOne`, `Expire`, `Reactivate`,
`Rollback`) may come in between. Rows are used once in `Withdrawal` and `Sessions` and
the tables of `Admission` are small, so these models are finite without further bounds,
except `MaxCounted`: no refusal is counted beyond it (2 in the run: a refusal below the
limit, one at the limit, and two that overlap and count as one; a count above the limit
acts as one at the limit does, and the proofs hold for every `MaxCounted`).
`MaxFailures`, `MaxSessions` and `MaxChoices` are
settings of the code. In `Delivery` `MaxMessages`, `MaxCrashes` and `MaxReplays` are
bounds of the model, `MaxRetries` is the column. Paths of `Admission` have 2 and 1
places and 1 seat each, so that every quota is reached; one offering has a yearly quota
and one has none. In `Leads` two workers compete for two leads and the one place of an
officer; two requests are what a stale copy takes, and a request beside a task;
`MaxRetries` is the setting of the task, reduced to one, so that a first, a repeated and
a last attempt occur. Overlapping sweeps are left to the proof (`LockIsKept`): the run
has one sweep, which may still outlive its key.

Some properties except what the code does not guarantee, and do not cover it.
`PendingWaitsForMoney` excepts profiles one of whose payments left as a voided import;
`EventuallySettled` (of deliveries) rows that lost their retry date; `NobodyForgotten`
leads whose message was lost or used up in a way the actions name; all of these are
disagreements listed in section 5. `EveryRepeatHasAReason` counts a task that began on a
copy another one has settled as a reason, so it bounds such repeats and does not exclude
them. `PersistedAtMostOnce` and `Implements` (of the outbox) except the contacts of
`MayRepeat`. `PROJECT.json` says of each such hazard that no property covers it.
`EngineSeatWasFree` speaks of the seats whose decision takes the lock under which the
engine counts (`Guarded`): an approval locks the row of the offering, and only if it has
a quota.

Fairness. `OutboxFairSpec` is weakly fair on each worker's next step and on the expiry
of leases: beat starts a tick every 30 seconds (`celery_app.py:337`), a running
task goes on unless it dies, and clocks advance. Nothing is assumed of success:
every attempt may fail, and a worker may crash in every attempt. The same holds
of `Delivery`: workers take messages and finish tasks, the beat starts the sweep
every two minutes and the reconciliation every 15 (`celery_app.py:305`), backoffs
and keys expire. Crashes are bounded by `MaxCrashes`, replays are not assumed.
Nothing is said of liveness for leads: a message that is lost after the commit is
never sent again, so no fairness would justify it.

One assumption about time: the 300 seconds of a cooldown outlast the transaction that
took the key (`CooldownExpires` waits for the writer). With slower transactions two
workers could both pass the look-up. For contacts, whose key is set late and by whoever
inserts, nothing of the kind is assumed.

## 4. What is proved

For all values of the constants, from the named `ASSUME`s of the modules. Beyond
what the types of the code give, these assume that the tables are finite
(`Ledger`, `Gateway`, `Withdrawal`, `Admission`, `Sessions`, `Leads`), which the sums and counts over
them need, and that amounts are positive whole numbers of a unit.

* `NotificationProofs`, the outbox. `OutboxInv` is `OutboxTypeOK`, `PersistedAtMostOnce`,
  `WritersOwnTheKey` (a user's row being written has its key in `cooled`, one writer
  and no commit yet), `OneAtATime` (a worker that
  looks up a contact writes no other row), `LeasedAlone` (a
  contact's row in somebody's hands, whose lease did not run out there, is leased and
  in nobody else's, and is not committed when it was looked up) and `HeldWereInserted`
  (what a worker holds is in the table). `PersistedAtMostOnce` alone is not inductive:
  a commit adds one, so it needs that a writer saw zero and that no other writer
  passed the look-up since. For users the key guarantees that, for contacts only the
  lease, which is why they are excepted once it ran out. `OutboxRefinement` maps
  accepted events to inserted rows, loose ones to `MayRepeat` and fan-outs to commits,
  and shows that every other step stutters. `DispatchedStays`
  needs no more than types: a claim takes pending rows only and a finalize, of
  whichever worker, writes `dispatched` or leaves the status.
* `LedgerMathProofs`. The recorded excess is exactly the new surplus
  (`ExcessIsTheNewSurplus`); a refund takes back what a posting put there
  (`ReverseReturnsThePaidAmount`); the five status rules agree on a live fee with
  an invoice (`FeeRulesAgree`). One yields-lemma per operator carries the typing.
  Its first section is about totals over a finite table: what one changed row, a
  larger row, a part of the table or no row does to `SumFunctionOnSet`. That
  operator is recursive, and the induction theorems of the library cannot be used
  on it; the facts are proved by infinite descent instead: the sets for which one
  fails would have a smallest (`MinimalSubset`, from `WFMin` and the
  well-foundedness of strict inclusion), and taking out the element the sum takes
  next gives a smaller one. `Ledger` and `Withdrawal` write their sums with it.
* `LedgerProofs`. Four invariants, each on top of the ones before:
  * `Inv` is loose typing of rows and fees, the links between refunds and
    overpayment records, and `OverpaymentSettledOnce`. The links are what makes it
    inductive: a record's refund belongs to the record's payment, to no other
    record, and was filed before. From it follow `SettledOnce` and `DecisionsFinal`.
  * `MoneyInv` is `BooksBalance`, `PayoutsBounded` and `Links`: refunds and records
    are of verified payments, and a record that is not paid back is the only one
    whose refund counts (`Reserved`). Without it a refund could take more from an
    invoice than the invoice holds of the payment, the clamp at zero would swallow
    the rest, and the books would differ. The proof tells the actions apart by what
    they move: none (`Quiet`: the amounts stay where they are), one payment's
    holding on one invoice (`BooksMove`), or a credit from one invoice to another
    (`ApplyMoves`). `BooksAlwaysHold` adds that dead rows hold no money:
    `CancelledHoldsNoMoney` is inductive over `MoneyInv`, because a payment that is
    still to be verified keeps its fee from being cancelled.
  * `TypeCorrect` is `TypeOK` with natural paid amounts, which follow from the
    books, and with what the job and a recalculation have read (`JobsTyped`).
  * `StatusInv`, for instances where nothing is past due, penalized or recalculated
    (`NoArrears`): every status is the one its amounts imply (`Agreement`), rows
    that exist are about an amount (`Positive`), and `RepricingCanBeConfirmed`. The
    two theorems state these three hypotheses: without them the properties are
    false (section 5), and `ledger_books` satisfies them.
* `GatewayProofs`. Two arguments, for what survives any overlap and for what
  overtaking breaks.
  * `Inv`, for every behaviour: `FeeAccounted` and `CancelledFeeHasNoMoney` need that
    a posting is of an amount (`RowsAreFilled`, `RequestsKnowTheirIntent`) and of a
    payment that was not verified before; `StepMoney` shows that every step is such a
    posting (`Posted`), cancels a fee that shows nothing, or moves no money, and
    `PostingCounts` that a posting adds its amount to the total once. `Refinement`
    to `FeeAccount` is read off the same two lemmas. `CreditIsBacked` is not
    inductive alone: a posting on an outdated copy writes the paid amount of the copy
    plus its own, so it needs that every copy is backed too (`CopiesAreBacked`), and
    copies stay backed because what was received never shrinks.
  * What overtaking breaks, and nothing else does, also for every behaviour.
    `OnlyOvertakingLoses` needs that the due amounts in a copy are those of the row
    (`CopiesShow`): then a posting that starts from the paid amount of the row records
    exactly what it pushes beyond the due (`PostedWhole`), and both `Lost` and
    `Unrecorded` stay. `FinalOnceDecided` is about a single step: whoever writes an
    intent's status has begun while it was not final, or is a request that was running
    already.
* `SessionsProofs`. `Inv` adds to `TypeOK`, `SessionLimit` and
  `InactiveHasNoLiveSession` what a request between two locks knows
  (`HoldersKnow`: whoever holds the user's row has read the status that is still
  there; whoever rotates holds a live row), that a login about to insert has left
  room for its row (`RoomForLogin`), and that the tokens of rows that matter are
  real ones (`TokensKnown`). Without the first, a login authenticated before a
  deactivation would break the second. The abuse path invalidates without the
  user's lock, but only takes sessions away. `Know` is the invariant behind
  `LiveSessionsAreUsable`: a live row that no request has in memory has its key
  (`Usable`), rows that are not revoked have tokens of their own (`TokensDiffer`),
  and each request knows whose tokens it handles (`Knows`): a new one is nobody's
  yet, the one it rotates and the copies a logout deletes belong to its rows. So
  a key is only ever taken from a row that is revoked or in somebody's hands.
* `NotificationProofs`, the deliveries. The argument follows one delivery (`Good(d)`): while nobody
  has it accepted and it still looks open, every acceptance so far has its
  reason; two tasks never hold the row at once; a task that starts on a copy
  another one has overtaken leaves a reason of its own. The other conjunct is
  that the sweep that is not late owns the key.
* `WithdrawalProofs`. `Inv`: a request between its read and its write of the
  profile holds the row (`ReadersHoldRow`), a cancellation has read every open
  refund of the withdrawal (`CancelSeesAll`), and a profile in draft or admitted
  has none open. The last is a theorem (`RevivedProfileKeepsItsMoney`);
  `WithdrawnStays` follows from the first. `MoneyInv` adds the books: refunds are
  of verified payments (`Filed`) and fit in them (`Bounded`), and each fee has its
  verified payments less what was refunded (`Accounted`); and what the requests
  hold (`Hands`), so that a payment is posted and a refund paid once. Over it:
  `WaitingIsForMoney` and `WithdrawnIsEmpty`, because the payout that leaves
  nothing also ends the withdrawal and nothing arrives on a profile that has left;
  `RefundsEndWithTheWithdrawal`, because with nothing held no refund can be open;
  and `WaitingMoneyIsScheduled`, which needs that what a withdrawal is about to
  file still covers every payment when it files it (`Schedule`).
* `AdmissionProofs`. `Inv`: a counter is never below the number of profiles in
  play on its path (`PlacesAreCounted`), with which the quota checked against the
  counter bounds the profiles; a request that decides holds the profile's row
  (`DecidersHoldRow`); a cascade only judges choices of its profile and ends with
  its first admission (`CascadeFollowsChoices`); status and decisions
  agree (`RowsAgree`). `EngineNeverOverfills` needs that what was counted under a
  lock stays true while the lock is held (`SeatsKept`): between the count and the
  commit of a cascade the year's seats, and the path's once it has admitted, still
  leave room for its profile. A guarded seat is taken only by a commit, whose
  request has a lock the cascade would need (`MayJoin`), so `OthersKeepSeats` shows
  that no step of another request takes the room away. `EngineOnly` says that only
  the engine's profiles go through cascades.
* `LeadsProofs`. `Inv`: what a worker knows while it holds its locks (`Holds`): the
  lead is its own and still waits, the officers of its pool are still eligible,
  and those that had room when it counted still have; and every waiting lead
  that is not excused is under way, closed and deleted ones included since they
  may come back. Whoever writes a lead needs its lock, and whoever makes an officer
  its officer needs his: between the count and the commit a locked officer can
  only lose leads. Requests decide on outdated copies, but write under the same
  locks, which is all the argument needs. From `Inv` follow
  `CapacityRespected`, `GivenRightly` and `NobodyIsForgotten`.

All of these invariants were checked by TLC on the instances of section 3 before
they were proved.

Only model-checked: `RowsEventuallySettled` and `EventuallySettled`, because liveness
under fairness is not within the prover's reach. Every other property of a passing run
is stated by a theorem. `InvoiceBalance`, `ExternalAtMostOnce` and `AnnualQuotaHolds`
are those the code breaks.

## 5. Not modelled

How the price of a fee is found (discounts and their policies), the bulk
recalculation when the tuition of a semester changes
(`recalculate_fees_for_semester_tuition_change`, which reads and writes each fee as
`recalculate_fee` does), the projection onto leads, the guard against double entry, `PaymentTransaction`, `cancel_intent` and `expire_intent`
(nothing calls them), the circuit breaker and the quota counters of a channel,
provider webhooks, second factors and magic links, edits of quotas, deadlines and
phases, and the components of `PROJECT.json` without a module: collaborators, SMS
campaigns, KPI, organization, scoring, fee discounts. Those are record keeping for
the most part, or arithmetic over configuration.

Of leads: the requests to reopen and their quota, the merging and the contents of
imports, the pipeline and its scores, the statuses beyond open and final (the
projection of profile and fee among them), referral. The nightly job that closes
stale leads is, for the assignment, a consultation that closes. The flags on
officers that only change their order are part of the choice left to chance.

### Known disagreements

What comments and documents say and the code does not do, met while modelling. Three
have a run (`gateway_v_lost_update`, `outbox_v_external`, `admission_v_annual`). The
others:

* `invoice.py:46`, overdue is "Past due date, not fully paid":
  `mark_overdue_invoices` (`invoice_service.py:846`) writes `overdue` over an
  invoice paid or cancelled since its read, and over drafts
  (`fee_repository.py:1354`), which thereby become payable although
  `STATE_MACHINES.md:265` lets a draft leave only by issue or cancellation.
* `FINANCE_MODULE_DESIGN.md:2660` and `fee_calculation_service.py:1433`, no
  recalculation once money came in (M10), nor (`:1438`) once an invoice was issued:
  both are checked on rows read without a lock and written later, so a fee whose
  invoice was issued and paid meanwhile is priced again, and the issued invoice
  changes its amount. A single draft gets the whole price even when part of it is
  waived (`:1529`), and a fee a waiver had settled keeps its status when its price
  rises.
* `routers/fees.py:1213`, the route of a recalculation is blocked while a change of
  major waits for the accountant: neither the route (`:985`) nor the service asks. The
  check of issued invoices refuses it after the repricing; one that read before the
  repricing writes after it, and the confirmation then finds other amounts.
* `STATE_MACHINES.md:234`, cancelled is terminal for a fee: `waive_fee`
  (`fee_calculation_service.py:1642`) can turn a cancelled fee into a paid one.
* `payment_intent_service.py:267`, `create_intent` and `cancel_fee` "cannot
  interleave": the status checked is the one read before the lock, and an intent
  may be created on a cancelled fee.
* `STATE_MACHINES.md`, completed, failed and expired are terminal for an intent:
  `get_intent` (`payment_intent_service.py:1022`) and a failure callback write
  over a completed one they read unlocked. `FinalOnceDecided` shows that it takes
  such an overtaking.
* `notification_outbox.py:2`, "guaranteed-delivery dispatch": a row retried
  within the cooldown of its own failed attempt counts as dispatched with
  nothing persisted (`notification_outbox_tasks.py:355`).
* `delivery_tasks.py:93`, a transient error schedules a retry: the sweep's
  UPDATE (`delivery_tasks.py:388`) waits for a row that is being sent and then
  clears the date the failed attempt has just set; nothing finds the row again.
* The replay route says the sweep will pick up a replayed row whose message was
  lost: the sweep never finds rows without a date; the reconciliation does.
* `auth.py:82`, a client answered `REFRESH_ABUSE_LOCKED` has no session on the server:
  the refusal is counted first, and a revocation that fails is only logged
  (`Fail` after `CountWrite`); a login within the window does not reset the counter.
* `user_service.py:1385`, `user_blacklist` stops new logins until the commit:
  `_complete_login_flow` deletes the key, and on the abuse path
  (`auth.py:1398`), which holds no user lock, a login goes through.
* `payment_service.py:1692`, no profile is stranded in `withdrawal_pending` with
  its money refunded: when finance refuses the manual refund of an imported
  payment and the import is then voided (`payment_import_service.py:2140`), the
  profile waits with nothing held and no refund open. `PendingWaitsForMoney`
  makes this exception.
* `admission_service.py:12940`, cancelling a withdrawal raises when a refund is
  approved: it rejects approved refunds too.

* `lead_service.py:3881`, "Officers can only reassign their own": the check reads
  the copy loaded before the lock (`lead_repository.py:1424`), and the officer
  written is none, so an officer takes away the officer a manager has just set.
* `lead_service.py:2417`, an officer is always of the unit of the lead: a change of
  offering on an outdated copy that shows no officer leaves the one assigned
  meanwhile, who may be of the former unit, and an assignment on an outdated
  copy compares with the former unit.
* `models/lead.py:224`, the list of refusals "prevents reassignment back to them":
  a `reassign` on an outdated copy writes that copy's list plus one, and the
  refusals filed since are lost.
* `lead_reopen_service.py:178`, the requests to reopen are settled under the
  lead's lock and therefore cannot race: they are read without a lock, and the
  read of a request that another transaction decides is outdated.
* `routers/admin/pipeline.py:445`, the revision of a status: neither the service
  nor the route commits, and `get_db` (`database.py:947`) does not either.

Leads that wait for an officer and that nobody looks for (all excused by name in
the model): imported and claimed ones, which get no task; those of officers who
are deleted in bulk, which keep the status "assigned"; those whose message was
lost, found the row locked once too often, or was skipped while the lead was closed
or deleted; those assigned by hand on a copy that already showed this officer,
where only the status is written. A profile created by an officer for a lead
without one takes the lead without a lock, also from an officer who got it
meanwhile; a consultation on an outdated copy opens a closed lead again.

Seen as well: `reverse_payment_balances` compares with the amount without the
penalty, so an invoice with a penalty can stay paid after a refund;
`process_approved_refund` never changes `payment.status`, although its docstring
says it does; refunding the other payment of an overpaid invoice leaves an open
overpayment the invoice no longer backs; a worker that outlived its lease writes
`last_error` on a dispatched row; a terminal intent's key cannot be used again; a
success that arrives after the expiry is refused; a place taken at submission is
not given back by a rollback or a withdrawal, so `submission_count` only
over-counts; locks are taken in opposite orders by withdrawal and payment
operations and by cascades over several paths, where the database fails one of
the two.

## 6. Plan

What would extend this project next:

1. `Breaker` and `Quota` as components of `Delivery`; the outbox feeding it.
2. The projection of profile and fee status on the lead: `Admission`, `Ledger` and
   `Leads` composed; requests to reopen with their quota.
3. The `PaymentTransaction` chain (`balance_after = balance_before - amount`).
