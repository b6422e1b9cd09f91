# TLA+ models of OpenEstate

OpenEstate is a real-estate sales and post-sales system: a NestJS API over
PostgreSQL (Prisma), Redis and BullMQ, a staff web client and a portal for
customers and brokers.  This directory models the parts in which the order of
events matters: who may take a unit, what a booking's ledger says after any
sequence of receipts, bounces and cancellations, when interest and commission are
posted, which lead goes to whom, whether what is queued is dealt with, when a
session is over, who may do what, and whose rows a request sees.

All paths below are relative to `src/`; the API is `apps/api/src`, called `api`.

## 1. The system

Everything a handler writes is in PostgreSQL.  A handler runs in `withTenantTx`
(`packages/db/src/tenant.extension.ts:362-420`), one interactive transaction at
READ COMMITTED: a statement sees what had been committed when it began, rows stay
locked from an update to the end, and nothing repeats a check at commit.  Several
API processes and queue workers run at once.  So two handlers interfere exactly
where one reads a row, decides, and writes it by id later.  That is the hardest
behaviour of the system, and the models keep a handler's statements apart wherever
the code does.

### Components

| Component | State | Operations | Hard behaviour | What makes it correct |
|---|---|---|---|---|
| Booking lifecycle (`api/postsales/booking`, `cancellation`, `transfer`, `number-sequence`, `api/inventory/unit-state-machine`) | unit status, bookings, number counters per financial year | create, allot, register, cancel, transfer (unit, applicant), manual hold/release/block | check long before write; rollback after a number was taken | numbers unique and gap-free; a unit is held by exactly its live booking |
| Booking account (`receipt`, `refund`, `payment-plan`, `extra-charge`, `ledger`, `cancellation`, `transfer`) | ledger, installments with a cached allocation, receipts, TDS certificates, refunds | plans and edits, receipts, cheque events, reversals, certificates, cancellation, refunds, transfer | long sequences of legal calls; read-modify-write of the cache; reversal of what was reversed | cache, ledger and receipts agree; the schedule sums to the price; a cancellation settles the balance |
| Delay interest (`interest.service`, `interest.scheduler`) | accruals per installment | daily job, accrue on demand, waive | repeated and failed runs, rounding | each overdue day charged once |
| Construction stages (`stage-raise`) | stage raises, installments waiting | raise, instantiate a plan | a plan made while its stage is raised | nothing stays unraised; one due date |
| Money (`packages/shared/src/money.ts`, `commission.ts`) | none | rounding, percentages, GST, allocation, slabs | boundaries, leftovers, signs | nearest rounding; no paisa lost |
| Commission and NOC (`api/commission`, `api/brokers`) | snapshot, commission ledger, payments, NOCs | accrue, request/approve/pay, NOC, cancel with clawback, edit rule | repeated accruals, two payments against one balance | ledger equals payments; accrued within the snapshot |
| Sessions (`api/auth`) | refresh tokens, `authz_version` and its copy in Redis, cookies | login, refresh, logout, everything that ends sessions, role changes | lost and reordered responses, rotation against session end, failing cache | a family never forks; an ended session is refused; a prompt browser stays signed in |
| Clients' session handling (`apps/web`, `apps/portal`, `lib/api.ts`, `auth`) | access token per tab, shared refresh, calls under way | `api()`, refresh, mount, sign-in and sign-out | several calls and tabs, lost answers, rotating CSRF cookie | nobody is sent away without reason; the header matches the cookie |
| Leads (`api/presales/inquiry`, `lead-stage*`, `follow-up`, `assignment`) | lead, three histories, stages, pools | intake, edit, follow up, attach a booking, assign, stages; round robin | rows read and not locked; SKIP LOCKED under an advisory lock | histories end where the lead is; strict round robin |
| Applicants (`api/presales/applicant`, import, inbound leads) | applicants, tombstones, distinct pairs | create, link, merge, machine intake | duplicates sought before the transaction | leads follow merges; one applicant per number |
| Change requests (`api/customer-portal`) | requests with the values seen | submit, approve, reject, staff edit, merge | compare, then write by id | nothing unseen is overwritten |
| Delivery (`api/webhooks`, `queues`, `dispatch`, `communication`, `presales/escalation`) | deliveries, jobs, failure counts, message rows, follow-up dates | enqueue, attempt, retry, disable; send; tick, run | worker stops, late answers, retries | what is queued is decided or seen to have failed; a lapse is not passed over and not reported twice |
| HTTP surface and pages (`*.controller.ts`, `api/auth/guards`, `packages/shared/src/permissions.ts`, `roles.ts`, pages of both clients) | roles, tokens, routes, pages | every route; every page and its gated controls | five sources of truth that must agree | surfaces stay apart; what is shown answers |
| Users and roles (`api/users`, `api/roles`, `api/common`) | users, roles, permissions | create, edit, assign, promote, deactivate, roles | decided on rows read before the transaction | a super_admin remains; nobody outgrows the admin |
| Passwords (`api/auth`, `api/portal-auth`, `api/users`) | links, invitations, password | issue, request, confirm, change, invite, deactivate | claim and write apart | redeemed once; no link older than the password |
| Two factors (`api/auth`, `api/portal-auth`) | lockout counters, codes | password, code, enrol, reset | parallel attempts | codes are rationed |
| Tenancy and audit (`packages/db`) | async store, connection settings, audit rows | nested stores and transactions, queries, writes | pooled connections, shadowed stores | sessions see their own; audit names the actor |
| Plugins, masters, inventory records, drafts, tickets, reports, rate limiter | rows of their own | | | not modelled, section 6 |

### Interactions

Creating, cancelling or transferring a booking moves the unit through
`UnitStateMachineService.transition` in the same transaction and takes a number
from the counter row of the booking date's financial year.  A receipt takes its
number the same way, then moves the cached allocation of installments that the
payment plan made and that a stage raise made due; interest reads that cache.
Cancelling a booking first asks the broker's NOC and then claws commission back;
collection milestones read the receipts.  A booking attaches itself to the lead it
came from, and a merge moves leads and change requests with the applicant.  Every
request passes the chain of global guards (`Access`), of which one reads the cached
version (`AuthzVersion`); the identity it carries becomes the tenant store
(`Tenancy`).  Changes to users end their sessions.  Domain events go to webhooks
through the queue server, as messages and escalations do.

## 2. Modules

| Module | Models | Notes |
|---|---|---|
| `UnitStateMachine` | tables of statuses and transitions | constants of `inventory.ts`, `finance.ts` and the services |
| `BookingTx` | booking handlers as transactions | `pc[t]` is the next statement, `req[t]` the request, overlays hold uncommitted writes; counters, unit rows and booking rows are locked by their update |
| `NumberRegister` | abstract: what a gap-free number sequence promises | implemented by `BookingTx` (`ImplementsRegister`) |
| `BookingAccount` | every handler that posts to a booking's ledger | one atomic action per handler: what a sequence of calls does |
| `ReceiptTx` | receipt, reversal, bounce as transactions | what the same handlers do at the same time |
| `InterestAccrual` | interest runs as transactions | `rows` is the first query's result, `drafts` the uncommitted accruals |
| `StageRaise` | raises and plans as transactions | a bulk update matches, waits, re-checks |
| `Money`, `MoneyCalls` | pure functions, and calls of them | operators named as in the code; states are inputs |
| `Commission` | commission, payments, NOC, clawback | read and commit are separate steps |
| `Sessions` | refresh tokens, access tokens, browsers | one user; a transaction under `withUserLock` is one step, a rotation two |
| `AuthzVersion` | the version and its copy in Redis | every Redis command may fail, before or after its effect |
| `Client` | tabs over one cookie jar | of the server only what a tab can see |
| `LeadPipeline` | a lead, its histories, the stages | read and commit apart |
| `AssignmentPool` | round robin of one project | statement by statement, with the advisory lock and SKIP LOCKED |
| `Applicants` | duplicates, merging, intake | tombstones point to survivors |
| `ChangeRequests` | contact details: requests, reviews, edits | read and write apart |
| `Webhooks`, `Escalation`, `Messages` | background work | workers stop between any two of their statements, between the last one and the queue's acknowledgement too, and any call they make may throw; `gaveUp` and `dead` are the queue's failed set; fairness of the workers |
| `Routes` | every controller's handlers: surface, permission, method, public | the permission catalogue too |
| `Access` | roles and the chain of guards | a token with any drifted permission tries every route |
| `Screens` | what each page asks of the API, behind which gate | pages of both clients |
| `Accounts` | users and roles of one company | decision, lock and write apart |
| `PasswordLinks` | every way a password is set | claim, row lock and write apart |
| `SecondFactor` | password and code attempts | decided on a copy of the row; the reservation is one update |
| `Tenancy` | stores, transactions, connection settings, row-level security | `frames[q]` is the stack of calls |
| `Null` | `NULL` | |
| `BookingTxProofs`, `BookingAccountProofs`, `MoneyProofs`, `SessionsProofs`, `AccessProofs`, `PresalesProofs`, `JobProofs` | theorems (section 4) | each extends the modules it is about; account and receipts, arithmetic and commission, sessions, version and client share one |
| `SumFacts` | lemmas about totals of functions and sequences, and maxima | cited by the account's, the money's and the jobs' proofs |
| `MC…` | instances for TLC | |

`PROJECT.json` gives for each definition the lines it models.  A definition whose
comment begins with *Fault* is not part of a specification: it is a plausible
mistake in the definition that follows it, and shows that a property would notice.

Data are abstracted to what the properties tell apart: ids are model values,
amounts small numbers, dates day numbers; names, documents and wording are left out.

## 3. Runs

An MC module that instantiates several components adds a variable, chosen in the
initial state, that names the *scope* of a behaviour: the component that moves, or
which operations may overlap.  A run then explores the union of
its scopes in depth instead of their product.  Components put together in this way
share no rows, so nothing is lost.

| Run | Instance | Shows |
|---|---|---|
| `booking` | 2 units, 3 bookings, 3 connections, 1 year | any operations of which no two are about one unit (`UnitsApart`), or creators and advancers all at once, with a rollback at every statement: a unit is occupied exactly by its one live booking, and the transactions implement `NumberRegister` |
| `booking_two_years` | the same, 2 years | **violation**, see below |
| `account` | 2 bookings, 2 installments, 2 receipts, 1 refund; transactions: 3 receipts, 3 connections | scopes *schedule* (one live booking's plan, receipts, cheques, certificates), *settlement* (charges, transfer, cancellation, refunds, cheques that bounce late) and *transactions*: cache, ledger and receipts agree, schedules sum to the price, cancellations settle, receipts of one year at once keep the cache exact, a receipt is reversed once |
| `receipt_lost_update` | a receipt and a bounce at once | **violation** |
| `schedule` | interest: 2 installments, 3 days, runs one at a time (`RunsAlone`); stages: 4 bookings, 2 dates, two transactions of which nothing overlaps a raise that may be the first (`FirstRaiseAlone`); money: amounts −14…14, 6 rates, lists up to 3 | interest windows are contiguous from the due date through failures, waivers and payments, and rounding stays within half a paisa a run; no installment of a raised stage stays unraised and a stage has one date; rounding is nearest, GST halves agree, allocation is exact and fair, accepted slabs cover every basis |
| `commission` | 2 bookings, 2 payments, two handlers at a time that overlap in every way but four (`OneHandlerPerPayment`, `TakesApart`, `ClawbackUndisturbed`, `InsertsApart`) | scopes *payments* (rules may change) and *milestones* (fixed rule, collection up and down): ledger equals payments, nothing overdrawn, accrued within the snapshot, clawback settles |
| `commission_double_pay` | two handlers at once | **violation** |
| `sessions` | 1 user, 2 browsers, 3 tokens, 2 requests; cache: 3 processes, 3 versions; 2 tabs, 2 calls | a family never forks, dead families stay dead, ended sessions are refused, a prompt browser stays signed in; the guard decides on an up-to-date version; a tab is sent away only when its session ended or an answer was lost, and a CSRF header matches its cookie |
| `presales` | 1 lead, 2 stages, 2 owners, 2 bookings; pool of 2 with imports of 2 rows; 3 applicants, 2 numbers; 2 change requests | histories end where the lead is and conversion follows the status; strict round robin under overlapping imports; leads follow merges; machine intake links by number; reviews decide once, on what was seen |
| `change_request_race` | an approval and an edit at once | **violation** |
| `delivery` | 1 endpoint, 2 deliveries, 2 jobs, 2 attempts; 1 lead, 4 ticks, 2 runs that fail or stop; 3 message rows; a webhook or message worker stops once, calls throw at any time | what is queued is decided or its job ends in the failed set; no lapse is passed over, and none is reported twice; the rows a retried document leaves stay FAILED; a disabled endpoint stays disabled |
| `access` | all routes, pages and roles with 4 drifting permissions; 3 staff, 1 custom role, 2 requests; 2 links, 1 invitation; 2 failures to a lockout; 2 companies, 3 sessions, 1 connection, nesting 3 deep | surfaces and the second factor hold under drift; gated controls answer; a super_admin remains; nobody outgrows the admin; links are current and redeemed once; codes are rationed; sessions see their own rows; audit names the actor |

**Bounds.**  Two of a kind suffice for the interference the code can show: a handler
interferes with one other through one row, and three connections show a third that
waits.  Three bookings let a unit be booked, released and booked again; three tokens
let a browser hold one that was consumed two rotations ago; three applicants let
merges chain.  Limits (attempts, failures, codes) are two, so that the last but one
and the last differ.  Amounts of a few paise exercise every rounding case because the
rates are chosen around halves.  A counter's bound (`MaxDay`, `MaxRaises`, `MaxClock`,
`MaxTime`, `MaxVersion`, `MaxAuthz`, `MaxCsrf`, `MaxFrames`, …) stands in a guard.

**Deadlock** is switched off because a bounded instance runs out of ids and a booking's
life ends.  Cycles of row locks are not checked: where two transactions wait for each
other (two receipts that name the same installments in opposite orders, in different
years) PostgreSQL aborts one of them, which is a `Rollback` of the model.

**Fairness.**  Only `delivery` checks liveness (`DecidedInTheEnd`, `LapsesAreReported`)
and assumes fairness.  It is weak, and on the program's own workers only: a webhook
job that is due is processed (`Process`), a message job takes its next step
(`SendStep`), time passes (`Pass`), the repeating tick fires (`dispatchTick`) and a
queued run starts, stamps and writes to the managers (`StartRun`, `StampRun`,
`NotifyManagers`).  BullMQ justifies it: a worker polls its queue, a stalled job is
handed out again or given up, and a repeatable job is scheduled as long as the process
lives.  Failures need not happen but may, at every step of a worker and as often as
they like where the job ends with them (`ProcessThrows`, `SendThrows`, `NoticeLost`).
Those after which the work begins again are bounded, because a worker that always
stops decides nothing: `MaxWorkerStops`, `MaxSendStops`, `MaxRunFailures`.  Nothing is
assumed of administrators, sales people, receivers or providers: an endpoint may refuse
for ever, and the delivery is then decided as exhausted.

What the two properties promise is no more than the code keeps.  A queued item does not
vanish: its row has the result or its job is in the failed set.  A date that lapses is
not passed over: it is reported, or the run that stamped it reached nobody (`unheard`).
The failed set and the lost notice are where the code stops caring; see Known
divergences, *Delivery*.

### Findings of the violation runs

* `booking_two_years`: `createBooking` reads the unit without a lock
  (`booking.service.ts:45`); what serialises two creators is the counter row they
  both update, and that row is per financial year.  Two bookings of one unit dated in
  different years both commit.
* `receipt_lost_update`: `bumpInstallment` (`receipt.service.ts:437-452`) writes back
  a value computed from an earlier read.  Receipts are serialised by the counter; a
  bounce takes none.
* `commission_double_pay`: `approve` (`commission-payment.service.ts:87-101`) and
  `pay` (`119-246`) read the status and update by id: an approval begun before a
  payment puts APPROVED back over PAID, and two pays at once both pay.
* `change_request_race`: `approve` (`applicant-change-request.service.ts:95-112`)
  calls itself TOCTOU-safe because comparison and update are in one transaction; at
  READ COMMITTED an edit still commits between the two and is overwritten.

### Known divergences

Met while modelling and reproducible by changing a cfg; no run is kept.  Definitions
marked *Not kept* in the modules state what was expected, and TLC refutes them when
they are added to the cfg of their run.

*Bookings and money*

* A manual hold that read AVAILABLE before a booking commits overwrites BOOKED
  (`unit-state-machine.service.ts:60`; `Booking.cfg` with `manual` in `SameTime`).  In
  the same way two transfers (`transfer.service.ts:102`) or two cancellations
  (`cancellation.service.ts:118`) of one booking at once leave a unit with two live
  bookings or free one that was booked again.
* An applicant transfer of an ALLOTTED booking opens a BOOKED one on a unit that stays
  ALLOTTED (`transfer.service.ts:112`; `UnitMirrorsBooking`).
* `CANCELLABLE_FROM` accepts a REGISTERED booking, which the unit's table then refuses
  (`cancellation.service.ts:21`; `CancellableIsCancelled`).
* `recordTdsCertificate` does not look at whether the receipt stands
  (`receipt.service.ts:327`; `CertificateZeroesReceivable`).
* Two refunds, each within the balance when requested, are both approved
  (`refund.service.ts:48`, `:77`; `ApprovalStaysWithinOwed`).  A refund paid again after
  its cheque bounced is not debited again (`refund.service.ts:160`;
  `PaidRefundsAreDischarged`).
* A cheque that bounces after a transfer posts to the closed ledger
  (`transfer.service.ts:99`; `TransferredOutIsClosed`).
* An installment whose only receipt bounced counts as unpaid, but the allocation that
  stays refers to it and the foreign key refuses its deletion
  (`payment-plan.service.ts:195`; `UnpaidIsReplaceable`).
* Two receipts of different years at once exceed an installment, two reversals of one
  receipt both post (`receipt.service.ts:112`, `:393`; `Account.cfg` with `reverse` in
  `SameTime`).
* Two interest runs at once charge the same days (`interest.service.ts:100`), and
  `accrueForCompany` lists live bookings first, so one cancelled meanwhile is still
  charged (`:148`).
* A plan instantiated while its stage is raised stays unraised, and two raises at once
  give two dates (`payment-plan.service.ts:71`, `stage-raise.service.ts:49`;
  `Schedule.cfg` without `FirstRaiseAlone` or `RunsAlone` in `MCNext`).
* `validateSlabContiguity` accepts a bracket that ends before it starts
  (`commission.ts:221`; `BoundaryIsHigher`).  An odd number of basis points cannot be
  halved (`money.ts:179`; `GstNeverThrows` with an odd rate).
* Editing a rule's milestones between two accruals exceeds the snapshot
  (`commission.service.ts:124`); two accruals at once post twice (`:95`); an accrual
  after a cancellation is never clawed back (`:33`; `NothingOwedAfterCancel`).

*Presales and portal*

* A follow-up turns a lead from OPEN to CONTINUED without a disposition row
  (`DispositionHistoryIsComplete`).  A stage can be retired while it is the default or
  while active leads are in it (`ActiveLeadsAreOnTheBoard`).
* Two edits of a lead at once leave `convertedAt` behind its status, and two attaches
  at once overwrite a booking's source (`inquiry.service.ts:424`, `:525`).
* `setMembership` overlapping an intake writes an old `last_assigned_at` back, which
  changes whose turn it is (`StampsNeverMoveBack`).
* Two leads with one new number at once make two applicants; two merges at once can
  form a circle of tombstones; a chain of merges leaves the timeline of the first
  applicant behind.
* An approved change of e-mail writes `email` and not `emailNormalized`, which
  `findDuplicates` searches (`applicant-change-request.service.ts:112` against
  `applicant.service.ts:230`; `EmailIsFound`).  A request approved after a merge is
  applied to the tombstone, and an approval and a rejection at once can leave an
  applied request REJECTED.
* A ticket that is opened again keeps its `closedAt` (read, not modelled).

*Delivery*

* A message or document job has one attempt (`communication.service.ts:64`,
  `dispatch.service.ts:61`, `:95`: no options).  When a read, `provider.send` or the
  write of the result throws (`communication.processor.ts:38`), the row stays QUEUED,
  which `DispatchService.retry` refuses (`dispatch.service.ts:72`: only FAILED).  A
  query that fails on the last attempt of a webhook job leaves the delivery PENDING,
  which `retry` refuses as "already in-flight" (`webhook-delivery.service.ts:95`).
  Without `dead` or `gaveUp` in them, `MessagesAreDecided` and `DeliveriesAreDecided`
  are refuted.
* A worker that stops after the result was written and before the queue is told so
  sends or posts again: a FAILED document that was retried meanwhile can become SENT
  (`resent`), and an exhausted delivery is counted twice.
* The escalation's stamps commit before the managers are written to
  (`escalation.service.ts:86-107`, `:112-125`).  When the send fails, which is only
  logged (`:122-124`), when the company has no active sales manager with an address, or
  when the worker stops in between, the lead counts as escalated and nobody was told
  (`unheard`); no later run comes back to that date.
* Overlapping escalation workers notify twice; two retries of one webhook delivery at
  once make two jobs; a row whose enqueue is lost stays QUEUED or PENDING, since
  nothing sweeps.
* The webhooks page says that deleting an endpoint deletes its history, but the foreign
  key is RESTRICT.

*Users, sessions and access*

* Promotions racing a deactivation can leave a company without an active super_admin;
  two invitations at once can create two accounts; manager edits at once can form a
  circle, although `permission-subset.util.ts:123` says `assertValidManager` locks.
* Two verifications at once can use one recovery code twice or revive one, and wrong
  passwords at once are counted once.
* A claimed link's password may be written after a newer one the owner set; the job
  that answers the sign-in page inserts a link without the row lock; the check that an
  account is active is outside the transaction that issues its link.
* The server may stop between `deactivate`'s transaction and `endSessions`
  (`users.service.ts:462`): a later reactivation finds the old refresh tokens alive.
* A wrong current password or code answers 401, so the client refreshes and sends the
  call a second time.  A refused refresh that arrives late clears the cookies of a newer
  sign-in, and a mount-time refresh overwrites one.  A refresh answer lost after a role
  change sends a tab to sign-in although the session lives.
* The menu shows the dashboard to the accounts role, which cannot use it
  (`MenuHidesUnusableLinks`, against `RequirePermission.tsx:10`); the same role cannot
  use Receipt Entry, and sales roles get 403 from `/custom-fields`.
* The list of inquiries asks GET `/users` of users who may assign leads, as a "proxy" for
  managers (`Inquiries.tsx:94`), but that handler asks for `admin.user.read`
  (`users.controller.ts:40`).  Every seeded role that has the first has the second.  A role given only
  the first gets 403, and its empty list does not say that no reports are configured;
  `ShownControlsAnswer` without its second conjunct is refuted.
* The rate limiter (read, not modelled) renews its window without resetting the hits
  (`redis-throttler-storage.ts:59`), so a steady caller below the limit can be blocked,
  although `:30` says it "resets once expired".

## 4. Proofs

TLC checks small instances; these theorems hold for every value of the constants,
under the named assumptions of the modules (`TxAssumption`, `CommissionAssumption`, …),
which say that limits and amounts are positive numbers, that sets of rows are finite
where they are summed over, and that `NULL` and other marks are outside the sets they
mark.  None of the properties is inductive as it stands; each proof strengthens it to a
conjunction of named parts, one step per action and under it one per part the action
disturbs, and TLC checked the strengthening on a run before it was proved.

Where the code itself fails when certain operations overlap (Known divergences), the
theorem names exactly the overlap it excludes, as a hypothesis on the constant that says
what may overlap: `Together`, `AppTogether`, `SameTime`, … hold the operations whose read
and commit may be separated by others.  Everything not excluded interleaves freely.
Where the overlap depends on rows, the hypothesis is a state predicate P and the theorem
`Spec /\ []P => []Q`: in every history in which the overlap P excludes never occurs, Q
holds.  P speaks of the requests under way only, never of what they leave behind, and
each is needed for its own property alone: TLC refutes the property when P is taken out
of the run, whatever other hypotheses stay.

| Module: theorems | Statement | What the invariant adds |
|---|---|---|
| `BookingTxProofs`: `TypeCorrect`, `NumbersAreGapFree`, `NumbersAreUnique`, `BookingsImplementRegister` | `Spec => Register!RegisterSpec` and the invariants it rests on | `LabelInv` (which statement may come next), `CounterInv` (who holds a number holds the counter's row, alone, and holds its next value), `OverlayInv` (an uncommitted row updates a committed booking and keeps its number, or is the one new booking with the number its transaction took), `NumbersInv` (a year's committed bookings carry 1 … n, each once) |
| `UnitOccupiedWithinOneYear`, `BookableWithinOneYear` | bookings created and advanced at once, all dated in one financial year (`OneYear`) | `OneYearInv`: the year's counter row serialises those who book; what each transaction read of its unit is still so |
| `UnitOccupiedOnUnitsApart`, `BookableOnUnitsApart` | any operations and years, no two open transactions about one unit (`UnitsApart`) | `ApartInv`: where each transaction stands (`ApartAt`), what it writes and plans is about the units of its request (`Footprint`), and unit and booking agree up to that (`Settled`) |
| `BookingAccountProofs`: `AllocatedMatchesReceiptsHolds`, `LedgerMatchesReceiptsHolds`, `ScheduleSumsToPriceHolds`, `CancelSettlesBalanceHolds` | every handler of the account, any bookings, receipts, prices and charges; the last is an action property | `AccountInv`: rows refer to the booking's current plan (`RefersToPlan`), the two reversal flags agree, nothing is deducted from a booking that is not over (`Undeducted`), and three sums: caches, ledger, plan |
| `ReversedOnceWithinAmountHolds`, `CacheMatchesEntriesHolds` | receipts at the same time, the rest one at a time (`SameTime ⊆ {"create"}`); the second within one financial year (`OneFY`) | `TxInv`, and over it `HolderInv`: one transaction holds the counter's row and with it the caches it has read (`SoleHolder`, `Cached`) |
| `MoneyProofs`: `ArithmeticIsExactHolds` | every amount, rate, weights and slabs | see below |
| `LedgerMatchesPaymentsHolds` | no two handlers of one payment overlap (`OneHandlerPerPayment`) | `CommissionInv`, which needs no hypothesis: what a handler carries fits the rows it will write (`Fits`: the takes add up to the amount, milestones are ones of a rule), no booking is seen twice, one request cancels a booking (`RowsHeld`).  `PaidInv`: the two totals agree, and a handler finds its payment in the status it read (`Expects`) |
| `NothingOverdrawnHolds` | no two payments under way take from one booking (`TakesApart`) | `CoverInv`: what a payment carries is still covered, because accruals only add and a cancelled booking is exempt |
| `CancelSettlesCommissionHolds` | nothing is about to be posted to a booking whose clawback was computed (`ClawbackUndisturbed`) | `ClawbackInv`: the clawback carried is the one for the present balance |
| `AccruedWithinSnapshotHolds` | no two inserts of one accrual under way (`InsertsApart`), no rule in use edited | `AccrualInv`: what was accrued for a booking is the sum of the shares of its milestones; carried rows are due, and whoever is about to insert one finds none |
| `SessionsProofs`: `OneTokenPerFamilyHolds`, `EndedSessionsAreRefusedHolds`, `DeadFamilyStaysDeadHolds`, `PromptBrowserStaysSignedInHolds` | families do not fork or come back; what is signed after a session ended is refused; a prompt browser is not signed out | references exist, what a request remembers is still so or its version is behind (`ReqOK`), one request rotates (`OneRotates`), one token of a family is alive, ended families are dead, every access token's version is bounded; for the browser `HandInv`: a family is in the hands of one browser, cookies on their way included, a prompt browser's token still opens its session, and a rotation stays in its family |
| `CacheKeepsUpHolds`, `GuardIsUpToDateHolds` | the cached version lies between the published and the committed one; a request is judged by a version at least as new as when it came | `HeldInv` (what a process carries between two commands), `KeyInv` (the key, and a lost key has nothing published); rests on `SET_MAX` |
| `SentAwayOnlyWhenEndedHolds`, `HeaderMatchesCookieHolds` | as the runs | a failed call has an excuse; header and cookie agree from the moment a call goes out |
| `AccessProofs`: `NobodyOutgrowsTheAdminHolds` | while no super_admin acts | pending writes are bounded as well as committed roles (`CallsBounded`, `KeysBounded`), one super_admin, roles in use exist |
| `SuperAdminRemainsHolds` | a promotion to super_admin overlaps nothing (`"promote" ∉ AccountsTogether`) | `SuperInv`: what a pending write relies on is still true; a demotion or deactivation that has looked holds the row of another active super_admin |
| `BoundaryHoldsUnderDriftHolds` | any keys added to any roles | `AccInv`: whoever has reached a handler has a token that every guard lets by |
| `RedeemedOnceHolds`; `LinksAreCurrentHolds` | as the run; the second when the sign-in page's job overlaps nothing (`"self" ∉ LinkTogether`) | `ClaimsAreExclusive` (a claim closes the row before it is used and one request holds it), `UsedIsClosed`, `Rationed`, `ArgsFit`; for the second `LockInv` (a user's row belongs to the transaction working on it, the job is alone) and `CurrentInv` (no live link predates the password, and a password about to be committed has every live link in hand) |
| `FactorTypeCorrect`, `CodesAreRationedHolds` | as the run | `Counted`: what the counter means in each state of the lock |
| `SessionsSeeTheirOwnHolds`, `AuditNamesTheActorHolds` | any depth of nesting | `FramesFit` (every open call's store fits its caller), `ConnsFit` (a held connection belongs to one open transaction and is set for it), `ReadsFit`, `ActorsFit` (uncommitted audit rows too) |
| `PresalesProofs`: `StrictRoundRobinHolds` | any pool that does not change, any overlap | `PoolInv`: the lock has one holder, stamps and picks are made under it, and whoever was given more was given the later one (`InTurn`), both as committed and as it would be if the open transaction committed |
| `RecordsTellTheLeadHolds` | intakes and attachments overlap, nothing else (`Together ⊆ {"attach", "intake"}`) | `LeadInv`: the last row of each history tells the lead's state (`Told`), what a request read is still what it will write about (`LeadReqOK`), only attachments are open together, a lead has one booking |
| `MachineIntakeLinksHolds`, `LeadsFollowMergesHolds` | nothing comes between a machine intake's look and its insert; between a merge's checks and its write | `AppInv` (phones are normalised, whom a request names exists); `IntakesAlone`; `MergesAlone` (whom a request names stays live until it commits), with which a merge points a live row at a live row and no pointer ever moves |
| `ReviewedOnceOnWhatWasSeenHolds` | a review overlaps no edit and no other review; submissions and merges at any moment | `ChangeInv`: an open approval is alone, holds the changes as they stand in the request and, once it has compared, the applicant's row still has the values the customer saw |
| `JobProofs`: `DisabledStaysDisabledHolds`, `OneNoticePerLapseHolds` | any workers, ticks, stops | a job's rows exist and an active endpoint is below the threshold (`ActiveBelowThreshold`); a reported date is not later than the stamp (`ReportedIsStamped`), nobody has been told of a date the run under way will report, and once it has stamped a lead the stamp is its own (`RunIsCurrent`) |
| `InterestIsExactHolds` | interest runs one at a time (`RunsAlone`); payments, waivers, failures and late days at any moment | `InterestInv`: windows join, end at the cursor and in the past (`WindowsOf`); a draft of the one run starts at the cursor (`RunOK`) |
| `RaisedOnOneDateHolds` | nothing overlaps a raise that may be the first (`FirstRaiseAlone`); plans and later raises overlap | `StageInv`: there is one raise at most, every dated row has its date and none waits after it; who raises has it or is about to make it, who inserts a plan has read it |

**Sums.**  The models add up rows with the community modules' folds, which are defined by
recursion over an arbitrarily chosen order.  Induction over a set with a predicate as a
parameter is beyond the prover, so `SumFacts` argues by a minimal counterexample: among
the subsets of a finite set on which a claim fails one is minimal (`HasMinimal`), it is
not empty, and taking a member away contradicts it.  From this follow the facts every
proof cites: the order does not matter (`FoldsAnyOrder`), one value changed changes the
total by as much (`SigmaChange`), totals add, scale, compare, ignore zeros and follow an
injection (`SigmaAdd`, `SigmaScale`, `SigmaMono`, `SigmaFilter`, `SigmaPlaces`), and
`SumSeq` of a sequence is the same total (`SumIsSigma`).

**Allocation.**  `allocate` gives every bucket its exact share rounded down and one paisa
more to those with fewer buckets *ahead* of them (larger remainder, or equal and earlier)
than paise are left over.  Being ahead is a strict total order, so exactly k buckets have
fewer than k ahead of them (`LeadingCount`); the remainders add up to the left-over times
the total weight (`RestsTotal`), each is below the total weight, so there are more broken
shares than left-over paise (`LeftOverFits`).  Hence nothing is lost, every share is
within one paisa of its proportion, and a zero weight gets nothing.  The shares of a
commission's milestones partition its snapshot by the same lemmas (`SharesPartition`,
`MilestonesDistinct`).

**Only model-checked**: `ShownControlsAnswer`, which is a property of one large finite catalogue of pages and
routes, for which evaluating it is the proof; the liveness properties
(`DecidedInTheEnd`, `LapsesAreReported`, …), which need `ENABLED`.

## 5. What is abstracted

* `BookingAccount` takes a handler as one step; `ReceiptTx`, `BookingTx` and
  `Commission` are where handlers overlap.  Delay interest is not posted in
  `BookingAccount`.
* PostgreSQL is modelled from its documented READ COMMITTED behaviour: statement
  snapshots, row locks until the end, re-check of a bulk update's rows, SKIP LOCKED.
  Redis commands and BullMQ jobs are modelled from how the code uses them.
* Access tokens do not expire in `Sessions` (a longer life is the harder case) and
  credentials are right; attempts with wrong ones are in `SecondFactor`.  `closed` and
  `ended` record what happened and are not program state; so do `excuse`, `tried`,
  `uses`, `notices`, `unheard` and `resent` elsewhere.  `Prompt` browsers come back within the grace window;
  the others may be late.
* In `AuthzVersion`, `published` is counted afresh when the key is lost: a fill that
  read the database before and writes after a loss may bring back an older value
  until the key expires (60 s).  The properties say what holds while the key lives.
* In `Client` the second factor of a sign-in is left out, and sign-in and sign-out are
  answered at once.  `Accounts` leaves out the roles and accounts of the portals.
* `Routes` and `Screens` keep of a handler or a page its name, surface, permission and
  gate; what a handler does is another module's action.  Forms, layout and the
  invalidation of cached queries, some of which are missing, are left out.
* In `Commission` the list of milestones a call may post is made at once and those not
  reached are passed over one by one; a booking from which a payment takes nothing stays
  in its list with a take of zero, which weighs nothing when the TDS is shared out.
* `Applicants` matches by phone; the e-mail's key is in `ChangeRequests`.

## 6. Not modelled

* *Plugins*: code loaded from disk; a model would invent it.
* *Masters* (GST rates, TDS rules, templates), *custom fields*, *company settings*,
  *tickets*, *construction updates*, *booking drafts*: single rows written by id, which
  no rule relates to another.
* *Inventory records, pricing and media, import and export*: inserts, sums with the
  rounding of `Money`, and I/O.  The unit's status is in `BookingTx`.
* *Reports, dashboard, broker portal, PDF documents, website*: reads and layout.
* *Rate limiting*: one script over one key in wall-clock milliseconds.
* *Deployment, CI, example plugin.*

Who may call the handlers of all of these is nevertheless in `Routes`, `Access` and
`Screens`.

## 7. Running

    tlc -workers 2 -config Booking.cfg MCBookingTx
    tlapm BookingTxProofs.tla

A run takes from seconds to two minutes.  `PROJECT.json` names module and cfg of each.
