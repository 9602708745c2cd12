# Verification of the Maton ERP

TLA+ models of the business logic of `backend/src` (NestJS, Prisma, PostgreSQL) and
of the pages of `frontend/src` (React, react-query) in front of it, the TLC runs that
check them on small instances, and TLAPS proofs for instances of any size. Paths
below are relative to `backend/src/` unless they start with `backend/`, `frontend/`
or `README.md` (the repository's README).

## 1. The system

The backend is a set of stateless NestJS services over one PostgreSQL database
and one document bucket. There is no in-memory state that matters, and several
servers may run at once, so *all interaction is through rows*: a request reads
some, decides, and writes some. What makes the system hard is what happens
between the reads and the writes:

- Prisma's interactive transactions set no isolation level anywhere, so they run
  at PostgreSQL's **READ COMMITTED**: a read sees what is committed plus the
  transaction's own writes, a write waits for the transaction that wrote the row
  before, and nothing keeps a row from changing between a read and a write.
- Many services read *outside* their transaction (`findOne`, then
  `$transaction`), or have none at all.
- A statement may fail, a transaction may time out, the server may die; what was
  in the transaction disappears, what was not stays (an uploaded file).
- Two jobs run every hour on every server: the due maintenance schedules and the
  reminder mail.
- The browser shows cached answers and offers what its own tables of roles and
  transitions say, while others write: a page has to forget what it has changed,
  and must not offer what the server refuses.

| Component | State | Operations | Talks to | Hard about it | Correct when |
|---|---|---|---|---|---|
| Inventory stock engine (`modules/inventory`) | items, stock levels, ledger, purchases, consumptions | create, move, adjust, transfer, purchase, issue, undo, delete | called by Appointments | absolute write of a balance read without a lock; two rows per transfer; undo read before its transaction | no negative stock; balance = ledger; transfers balance; one reversal per document; cost within prices |
| Appointments (`modules/appointments`) | appointments, schedule settings | book, cancel, review, set schedule | issues stock | count then insert; two reviews at once; cancellation over a decision | slots not overfilled; stock issued once and with the completion; closed stays closed |
| Document control (`modules/document-control`) | document, versions, approvals, objects in storage | create, add version, submit, decide | object storage | decisions on a version read before; last approvers racing; upload before rows | approved means signed by all; reviews can end; files kept |
| Asset register (`modules/assets`) | asset status, assignments | create, set status, check out, check in | shares `Asset.status` with work orders | check then write; index on open assignments | one holder; nothing out of service is handed out |
| Work orders and schedules (`modules/maintenance`) | work orders, schedules | create, move, add/edit/remove schedule, hourly run | writes asset status | stale transitions; concurrent counts; catch-up of dates; run on several servers | one open work order per schedule; asset status truthful; what is due is opened |
| Accounting | invoices, payments | create, move, pay | – | payments summed outside the transaction | never paid beyond the total; PAID iff paid in full |
| HSE | incidents, corrective actions | create, move, add/complete action | – | closing against an action being added | closed incidents have no open action |
| Projects, HR (appraisals, attendance, expenses, employees) | one status per row | moves along a table of transitions | – | transition checked on a stale status; last reviewer racing | moves follow the table; appraisals end |
| Users and access (`modules/users`, `auth`) | users, roles, sign-up settings | first request, request access, approve, reject, disable, enable, update | guard on every request | lazily created row; guard against admin; last admin | somebody can always administer |
| Settings, mail, reminders, activity log | key-value rows, log rows | save, claim the day, send, record | called after commits | torn settings; claim before sending | one reminder per day |
| Frontend (`frontend/src`) | the cached answers of each page, the acting role | visit, leave, refetch, mutate, switch role, wait for approval | every route of the API | answers of before a change or of another role; tables of moves and roles kept twice | a page shows its own changes; it offers what is accepted; a waiting tab opens |
| Notifications, reports, dashboard, organizations, departments | – | queries, plain inserts | the frontend | – | – |
| Infrastructure | – | – | – | – | – |

`PROJECT.json` lists each component with its status, and under `hazards` every
place in this code where such things bite, with the properties that cover it.

## 2. Modules

| Module | Models | State | Actions |
|---|---|---|---|
| `Inventory` | `inventory.service.ts` | `item`, `unitCost`, `level`, `ledger`, `doc`, `posted`, and per process a request `req` and `newCost` | `CreateItem`, `DeleteItem`/`MarkDeleted`, `RecordTransaction`, `AdjustStock`, `Transfer`, `RecordPurchase`, `IssueStock`, `DeleteDoc` begin a request; `ReadStock` is the second read of a purchase; `ReadLevel`, `WriteLevel` are the two halves of `applyStockDelta`; `PostMovement`, `PostPurchase`, `PostIssue`, `PostReversal` commit; `Rollback` |
| `StockLedger` | what the engine promises | `onHand`, `doc` | one indivisible action per operation |
| `Appointments` | `appointments.service.ts` | `capacity`, `appt`, `issued`, `req` | `UpdateSchedule`; `Book`, `CheckSlot`, `CreateBooking`; `Cancel`, `CommitCancel`; `Review`, `IssueLine`, `Decide`; `Rollback` |
| `DocumentControl` | `document-control.service.ts` | `status`, `current`, `version`, `object`, `approval`, `req` | `Create`; `AddVersion`, `PutObject`, `CommitVersion`; `Submit`, `ClearApprovals`, `CommitSubmit`; `Decide`, `UpdateApproval`, `CountRemaining`, `CommitDecision`; `Rollback` |
| `Assets` | `assets.service.ts` | `asset`, `custody`, `desk` | `Register`; `SetStatus`, `WriteStatus`; `CheckOut`, `HandOut`; `CheckIn`, `TakeIn`; `Drop` |
| `Maintenance` (extends `Assets`) | `maintenance.service.ts`, `schedules/` | `today`, `wo`, `sched`, `job` | `OpenWorkOrder`, `InsertWorkOrder`; `MoveWorkOrder`, `WriteWorkOrder`, `SyncAssetStatus`, `CountActive`, `TouchAsset`, `OnWorkOrderClosed`, `CloseTransaction`; `AddSchedule`, `InsertSchedule`, `EditSchedule`, `RemoveSchedule`; `Generate`, `FindDue`, `OpenDue`, `EndRun`; `Midnight`, `Rollback` |
| `Accounting` | `accounting.service.ts` | `invoice`, `total`, `paid`, `till` | `CreateInvoice`; `UpdateStatus`, `WriteInvoice`; `RecordPayment`, `CommitPayment`; `DropPayment` |
| `Hse` | `hse.service.ts` | `incident`, `measure`, `ruling` | `Report`; `Rule`, `WriteIncident`; `AddMeasure`, `SetMeasure`; `DropRuling` |
| `Workflow` | the status of a project and its milestone, an expense request or an employment | `kind`, `row`, `milestone`, `desk` | `CreateRow`; `RequestStatus`, `WriteStatus`; `CreateMilestone`, `UpdateMilestone`; `DropStatus` |
| `Appraisals` | `hr/appraisals.service.ts` | `cycle`, `appraisal`, `review`, `form` | `CreateCycle`; `UpdateCycleStatus`, `WriteCycle`; `CreateAppraisal`, `InsertAppraisal`; `SubmitReview`, `Mark`, `Count`, `Rate`, `Postpone` or `Complete`; `Drop` |
| `Attendance` | `hr/attendance.service.ts` | `now`, `shift`, `record`, `click` | `Tick`; `ClockIn`, `ReadToday`, `WriteClockIn`; `ClockOut`, `WriteClockOut`; HR's `CreateRecord`, `UpdateRecord`, `SetShift`; `DropClick` |
| `Reminders` | `mail/reminders.service.ts`, the claim in `settings/email-settings.ts` | `day`, `hour`, `last`, `enabled`, `waiting`, `run`, `sent` | `Hourly`, `ReadLastDay`, `ClaimDay`, `Gather`, `Mail`, `Crash`; `HourPasses`, `NewDay`, `WaitingChanges`, `SetEmailEnabled` |
| `AppointmentSchedule` | `appointments/appointment-schedule.ts` | `setting`, `saving` | `UpdateSchedule`, `SaveKey`, `CutShort` |
| `Access` | `auth/` guards, `users.service.ts`, the sign-up settings, `frontend/src/auth/AuthGate.tsx` | `owner`, `user`, `group`, `open`, `limited`, `call`, `screen` | `Load`, `Use`, `Poll`; the guard: `FindUser`, `DecideSignup`, `CreateUser`, `ActivateByGroup`, `SyncRole`; `AnswerMe`, `Leave`; `Decide`, `CountAdmins`, `WriteUser`; `UpdateAccess`, `WriteOpen`, `WriteLimited`; `GroupChanges`, `Fail` |
| `Endpoints` | the controllers' routes and roles, the functions of `frontend/src/api`, the tables each service answers from or writes, what it lets become of a row's status | – (tables) | – |
| `Pages` (extends `Endpoints`) | each component of `frontend/src/modules`: what it shows, reads, offers and forgets | – (tables) | – |
| `Client` (extends `Pages`) | a page at work: react-query's cache, `RoleContext.tsx`, `api/client.ts` | `page`, `watched`, `role`, `mounted`, `entry`, `fetch`, `request`, `status` | `Visit`, `Depart`, `Refocus`; `ServeFetch`, `LoseFetch`, `Arrive`; `Click`, `ServeRequest`, `Answer`, `LoseRequest`; `OthersWrite`, `SwitchRole` |
| `Nulls` | the absent value shared by the offices | – | – |
| `DocumentControlHistory`, `MaintenanceHistory` | the module they extend, and whether two requests have been in flight at once; what holds until then | `overlapped` | `HNext`: every step, with its trace in `overlapped` |
| `MC…` | instances for TLC; `MCOffice` runs the modules from `Accounting` to `AppointmentSchedule` and `Client` | `part`, in `MCOffice` | |
| `InventoryProofs`, `AppointmentsProofs`, `DocumentControlProofs`, `MaintenanceProofs`, `AccessProofs` | theorems about the module of that name and its history | | |
| `OfficeProofs` | theorems about `Accounting`, `Reminders`, `Workflow`, `Hse`, `Attendance`, `AppointmentSchedule`, `Appraisals` | | |
| `ClientProofs` | theorems about `Client` over the tables of `Pages`, and the types of `MCOffice` | | |
| `SetProofs` | lemmas about cardinalities and sums over finite sets | | |

How code becomes actions, in every module:

- **A request is a record** in `req`, `job`, `desk`, `till`, `form`, `click`, `run` or
  `call`: its program counter and what it remembers. One action per statement that reads or writes rows others
  may change; statements on rows nobody else can see are part of their neighbour.
  `Begin`… actions include the reads of their request; a refusal in the code is an
  action that is not enabled, or one that ends the request.
- **A transaction's writes** stay in its request until its last step, which
  applies them. The last statement and the commit are one step where the last
  write is to a row that other transactions also write last. What a transaction
  has written is *locked*: `Locked`, `Held`, `AssetHeld` disable the write of
  another. Unique indexes are checked against committed rows, and wait for
  uncommitted ones (`MustWait`) where they can matter.
- **`Rollback`** (`Drop` at the desk) is possible at every point of every
  request. It stands for a failed statement, a timeout, a deadlock victim and a
  dead server alike: all leave the committed rows.
- Definitions of locks, rollbacks and deadlock detection model PostgreSQL and
  Prisma as the code uses them; they are marked `external` in the map.

Data is abstracted to what the properties distinguish: quantities are integers in
the units of `round3`, prices integers in cents (rounded to cents as
`toDecimalPlaces(2)` does), dates are days, intervals days, a slot is an opaque
(date, time) pair, a file has a name and a content, the ledger is per stock level
the sum of its quantities and the balance of its newest row. Money in `Accounting` is
in half cents, because what a client asks for may have more digits than the column
keeps. One document, asset, invoice, incident, appraisal or row of a workflow is
modelled: several share no row.

The pages are tables rather than actions. `Client` is one page at work, with one of the
queries it keeps, and its actions are react-query's rules: what is cached is shown and
asked for again when the page opens; a mutation invalidates by prefix of the key; a
request on its way is dropped for a new one if there is an answer already, and joined
if there is none. It knows of an answer only the worst thing it misses: a change of
others, a change of this page, the acting role. Against it stand the tables of
`Endpoints`, read from the controllers and services and not from the frontend, so that
what a page offers is compared with what the server does. A table in `Pages` is written
from the component it is named for; a page that shows a status is tried in every one.
Where a service looks at more than the column of a status, and the page's own answer tells
it as well, `Endpoints` tells the status more finely: an incident with a corrective action
that is not completed, a cycle with an appraisal that is not, an invoice that is covered, an
asset that somebody holds, a document in a review that does not ask this user, one's own
account, an account without a role, an item on stock. The pages' menus know the column
only, so an offer asks for a status of the column, for the status the row has (`"="`), or
for any (`"any"`), and the service answers for the finer one.

Definitions with a suffix and a comment `MUTANT of X` are plausible bugs. They
are not part of any specification; every checked property has one that breaks it.

## 3. Runs

| Run | Instance | Checks |
|---|---|---|
| `inventory_concurrent` | 1 item, 2 warehouses, 1 document id, 2 processes, one quantity, a count of 0, one price, 3 ledger rows before no more requests begin; fair | what holds under every interleaving: `StockNeverNegative`, `BalanceAfterIsCurrent`, `ReversedByOverlapOnly`, `DriftOnlyFromStaleWrite`, `EveryRequestEnds` |
| `inventory_serial` | 1 process, 2 document ids, 4 ledger rows, a price of 0 | what holds without overlap: `LedgerNeverDrifts`, `CostWithinPrices`, and `ImplementsStockLedger` |
| `inventory_drift` | 2 processes | refutes `LedgerNeverDrifts` (comment at `inventory.service.ts:596-598`) |
| `appointments_review` | 2 appointments, 2 people, 1 slot, 2 items, 2 processes, capacities 1 and 2 | `IssuedAtMostOnce`, `IssuedOnlyByCompletion`, `ClosedStaysClosed`, `OverbookedByOverlapOnly` |
| `appointments_overbooking` | capacity 1 | refutes `SlotNotOverbooked` (`README.md:410-411`) |
| `documents_review` | 2 reviewers, 2 versions, 2 contents of one file name, 2 submissions per version, 2 processes | `VersionsContiguous` always; without overlap `AloneApprovedMeansAllSigned`, `AloneReviewCanBeDecided`, `AloneFileKept` |
| `documents_overtaken` | the same | refutes `ApprovedMeansAllSigned` (`backend/prisma/schema.prisma:423-424`) |
| `maintenance_custody` | 2 assignments, 2 clerks, 1 work order, 1 schedule, 1 worker and the hourly run | `OneHolder` always, `AloneDecommissionedIsHome` without overlap |
| `maintenance_schedule` | 2 work orders, 1 schedule, 1 worker and the hourly run, days 0 and 1, interval 1; fair | `OneOpenPerSchedule`, `NextDueAfterService`, `DueIsOpened`; without overlap `AloneUnderMaintenanceHasWork`, `AloneOpenedForTheDueDate` |
| `maintenance_truthful` | 2 work orders, 1 clerk, 2 workers | refutes `InProgressMeansDown` (`maintenance.service.ts:135-137`) |
| `office` | of each office one row, 2 or 3 requests; every page with every query; 1 answer that never comes | whatever overlaps, what is in `PaymentsSettle`, `RowsTellTheirStory`, `AppraisalsFinish` and `DaysAreRecordedRight` without a condition, and `RemindedOncePerDay`; without overlap the rest of these, `HoursToBook` and `AloneClosesWhenDone`; for every page `ReadYourWrites` and `OffersAccepted` |
| `access` | 2 users, the first an admin and the second outside the company's domains, 2 tabs, 1 request that fails; fair | `AdminsKeepTheDoor`, `GateOpens` |

**Why two kinds of property.** Some promises of the code hold whatever
interleaves, because an index, a conditional update or a lock carries them
(`IssuedAtMostOnce`, `OneHolder`, `OneOpenPerSchedule`, `StockNeverNegative`).
Others hold only as long as requests do not overlap, and are then lost. For these
the runs show both halves: the property holds in the serial behaviours (with
failures and crashes, which the code must survive), and, where a comment or the
documentation promises it without that restriction, a run refutes it. In between
are properties that say *how far* an overlap can go: `DriftOnlyFromStaleWrite`
names the only way for balance and ledger to part, `ReversedByOverlapOnly` allows a
document as many reversals as undos of it were in flight together, and
`OverbookedByOverlapOnly` bounds the overbooking by the number of requests in flight.
The properties named `Alone…`, and the conjuncts said below to hold without overlap, do
not catch the races they exclude: `hazards` in `PROJECT.json` says so at each of them.

**The offices in one run.** The modules of `MCOffice` share neither a row nor a
variable, so whatever one of them can do it does whether or not another one steps:
every property is about one module, and a behaviour of all of them, seen through that
module's variables, is a behaviour of the module. `part` picks the one that runs;
the others keep their initial state, of which there is one each.

**What a conjunction of an office says.** `PaymentsSettle`: a PAID invoice is covered,
always; it is overpaid only if two requests were in flight at once (two payments that
both read the invoice before either commits: `accounting.service.ts:146-162`).
`RowsTellTheirStory`: a reimbursed request was decided, always; the stamped dates tell
the status until somebody writes on a stale read. `AppraisalsFinish`: completed means
reviewed, always; the last review completes, and a closed cycle leaves nothing to
review, without overlap - with it, the last two reviewers count one another as pending.
`DaysAreRecordedRight`: late is late however two clicks cross; the day ends after it
starts without overlap. `AdminsKeepTheDoor`: nobody is active without an approval or a
group, always; an active admin remains unless two decisions meet or a group in a token
takes an admin's role (`cognito-auth.guard.ts:159-176` counts nobody).

**What the pages may miss.** `ReadYourWrites` is about an open page with nothing on its
way. It says nothing after a fetch that failed, which react-query repeats with the next
focus, or that a mutation joined because no answer was there yet. One key is left behind
by name: an edit or a check-in of an asset forgets `assets`
(`frontend/src/modules/assets/AssetDialogs.tsx:22`) and not `maintenance-schedules`,
whose answer tells the asset's status.

**What the pages offer and the server refuses.** `StatusMenu.tsx:6-8` says that the menus
only ever offer moves the API will actually accept. They do not. `KnownRefusals` lists every
offer of an up-to-date page that is refused for a role or for what the page's own answer
shows, each a 4xx with no state changed and each reached in the run:

| Offer | Refused |
|---|---|
| CLOSED, for an incident with a corrective action that is not completed (`HseDetailPage.tsx:113-120`) | `hse.service.ts:85-91` |
| CLOSED, for a cycle with an appraisal that is not completed (`AppraisalCycleDetailPage.tsx:98-105`) | `appraisals.service.ts:68-74` |
| a decision, for a user who is not asked for one (`DocumentDetailPage.tsx:121-133`) | `document-control.service.ts:200-205` |
| a payment, for an approved invoice that is covered (`InvoiceDetailPage.tsx:130`) | `accounting.service.ts:158-162` |
| deletion, for an item on stock (`InventoryItemsListPage.tsx:321`) | `inventory.service.ts:194-198` |
| DECOMMISSIONED, for an asset somebody holds (`AssetDialogs.tsx:67`) | `assets.service.ts:136` |
| disabling oneself; enabling an account without a role (`UsersListPage.tsx:108-126`) | `users.service.ts:140-143`, `157-159` |
| the report's page, for roles its route is not for (`App.tsx`) | `reports.controller.ts:20` |

`OffersAccepted` says that there are no others. A refusal is left unrecorded only where the
page cannot know: for what was typed into a form, for rows that are not in its answer, and
for a status that has changed since.

**The four divergences.**
1. *Drift.* Two requests read a balance, both write what they computed from it,
   both post their row: the balance misses one of them
   (`inventory.service.ts:615-631`).
2. *Overbooking.* Two bookings count a slot before either inserts
   (`appointments.service.ts:124-149`).
3. *Overtaken decision.* A reviewer's decision is counted on the version read
   before the transaction; a new version uploaded meanwhile becomes APPROVED
   unsigned (`document-control.service.ts:191-231`).
4. *Truthfulness.* A status set by hand is checked against a stale read
   and overwrites UNDER_MAINTENANCE (`assets.service.ts:133-148`); so does
   a work order started while the asset was decommissioned
   (`maintenance.service.ts:144-146`) once the asset is set active again.

**Bounds.** Two processes reach every pairwise race, which is what the code's
check-then-write patterns need to fail; what a third can add is that a bound is
reached twice, and where this matters (`OverbookedByOverlapOnly`, the inventory's
theorems) the statement is parameterised by the number of processes and proved: so
is every safety property of a passing run (section 4) but `OffersAccepted`, which is about
one page. Two warehouses give transfers in both
directions and so deadlocks. Two reviewers make a *last* reviewer. Two work orders
give one that is open while another is closed. `MaxRows`, `MaxVersions`,
`MaxSubmits` and `LastDay` bound what would grow for ever: each is a guard on
beginning a new request, so that what is in flight always ends, and each is large
enough for the case after the interesting one (a document deleted after it was
reversed; a resubmission after a rejection; a completion on a day later than the
due date). `LeadDays` is 0: only the sum `today + LeadDays` enters.
Deadlock checking is off where these bounds let an instance come to rest.

In `office`, two requests meet in every module; three servers let a third claim a day
that two have fought for, and two days let a claim be stale by a day. Two reviewers,
two corrective actions and two clicks are a last one and one before. `HalfCents` has an
amount that is rounded up, one that pays in part and one that pays in full; `SomeEdits`
has two edits that are fine alone and not together, and one of several keys, so that a
torn write is possible. `MaxMishaps` is the number of answers that never come to a page
(1: what is missed is repaired by the next fetch; the theorems take any), and a page has one mutation in flight,
as its buttons do. In `access`, `Seats` puts both tabs before the same new user, whose
first requests then race, or one before the admin; the policies an admin may write
differ from the default in both settings, which is the mixture that matters;
`MaxFailures` is the number of requests that fail.

**Fairness.** Only the server is fair, never its users: `Serve` is weakly fair
because a request that can go on does. A write that waits for a row lock is
strongly fair since PostgreSQL queues the waiters; a set of transactions that wait
in a circle is broken up since PostgreSQL detects deadlocks. The hourly run starts
again and again (`@Cron`), and since a run may fail in every step, strong fairness
of its two steps says that not every run is cut short at the same place. Nobody
is assumed to book, decide, complete or pause anything. In `access` the browser's timer
keeps polling while the screen shows PENDING (`refetchInterval`, a visible window), and
the server goes on with every request it has taken; no admin is assumed to decide, which
`GateOpens` does not need: it begins when the user is no longer waiting.

## 4. Proofs

Every safety property that a passing run checks, but `OffersAccepted`, is proved, for all items, warehouses,
documents, appointments, users, versions, work orders, schedules, amounts, tabs, policies
and *any number of processes*, cashiers, officers, clerks, reviewers or servers:

| Theorem | Says |
|---|---|
| `InventoryProofs!EngineInvariant` | `[]IInv`, the inductive invariant |
| `InventoryProofs!TypeCorrect`, `NeverNegative`, `BalanceCurrent`, `ReversalBound` | the invariants of `inventory_concurrent` |
| `InventoryProofs!DriftNeedsStaleWrite` | its action property `DriftOnlyFromStaleWrite` |
| `InventoryProofs!CostStaysWithinPrices` | `CostWithinPrices`, with any number of processes |
| `InventoryProofs!SerialNoDrift`, `SerialReversedOnce` | `LedgerNeverDrifts`, and that no document is reversed twice (`ReversedOnce`), if there is at most one process (`Alone`) |
| `InventoryProofs!SerialImplements` | `ImplementsStockLedger`: the engine refines `StockLedger`, if there is at most one process |
| `AppointmentsProofs!ReviewInvariant` | `[]IInv`, the inductive invariant |
| `AppointmentsProofs!TypeCorrect`, `IssuedOnce`, `IssuesOnlyOnCompletion`, `ClosedForGood`, `OverbookingBound` | the properties of `appointments_review` |
| `DocumentControlProofs!DocumentInvariant` | `[]IInv`, the inductive invariant |
| `DocumentControlProofs!TypeCorrect`, `Contiguous` | `TypeOK`, `VersionsContiguous` |
| `DocumentControlProofs!SerialAllSigned`, `SerialReviewGoesOn`, `SerialFileKept` | `ApprovedMeansAllSigned`, `ReviewCanBeDecided`, `FileKept` if there is at most one process |
| `DocumentControlProofs!AloneAllSigned`, `AloneReviewGoesOn`, `AloneFilesKept` | the same of any number of processes, until two of them have overlapped |
| `MaintenanceProofs!MaintenanceInvariant` | `[]IInv`, the inductive invariant |
| `MaintenanceProofs!TypeCorrect`, `OneOpen`, `OneHolderAlways` | `TypeOK`, `OneOpenPerSchedule`, `OneHolder` |
| `MaintenanceProofs!DueAfterService` | `NextDueAfterService` if `LastDay < MAX_CATCH_UP_STEPS` |
| `MaintenanceProofs!AloneHasWork`, `AloneIsHome`, `AloneOnTheDate` | `AloneUnderMaintenanceHasWork`, `AloneDecommissionedIsHome`, `AloneOpenedForTheDueDate` |
| `AccessProofs!AccessInvariant`, `AccessTypeCorrect`, `DoorIsKept` | `[]AccessInv`, the types, `AdminsKeepTheDoor` |
| `OfficeProofs!AccountingInvariant`, `AccountingTypeCorrect`, `PaymentsAlwaysSettle` | `[]AccountingInv`, the types, `PaymentsSettle` |
| `OfficeProofs!RemindersInvariant`, `OneReminderADay` | `[]RemindersInv`, `RemindedOncePerDay` |
| `OfficeProofs!WorkflowInvariant`, `StoriesAreTrue` | `[]WorkflowInv`, `RowsTellTheirStory` |
| `OfficeProofs!ClosesWhenDone` | `AloneClosesWhenDone` |
| `OfficeProofs!DaysAreRight` | `DaysAreRecordedRight` |
| `OfficeProofs!ScheduleTypeCorrect`, `HoursStay` | the types of the schedule, `HoursToBook` |
| `OfficeProofs!AppraisalsInvariant`, `AppraisalsAreFinished` | `[]AppraisalsInv`, `AppraisalsFinish` |
| `ClientProofs!ClientInvariant`, `OwnWritesAreRead` | `[]ClientInv`, `ReadYourWrites` |
| `ClientProofs!OfficeTypeCorrect` | `OfficeTypeOK`, of all the offices together |

*Inventory.* `StockNeverNegative` and `BalanceAfterIsCurrent` are not inductive:
they need that a request that is about to write has checked its balance, that its
position in its lines is valid and its document exists (`RequestOK`), and that an
item that does not exist yet has neither stock nor ledger nor requests
(`AbsentUntouched`), or creating it would reset a balance. `IInv` is their
conjunction; one lemma per action shows that it is kept, and `CommitInv` carries
the four kinds of commit at once. `ReversalBound` counts: an undo begins only where the
document is not marked deleted, which means that nothing has put it back yet, and its commit
turns one undo in flight into one reversal. The serial results add `SerialInv`: what the one
request has read is still true, and the rows it has written are those of the lines
behind it, of different keys. `Alone` says that two processes are always the same
one, and is a hypothesis of these theorems only.

*The cost of stock.* A purchase overwrites the average from a sum of balances that
anybody may have changed since. `CostInv` adds the cost a purchase in flight is about to
write. That the new average lies between the prices is a statement about a rounded
quotient: the sum of the item's balances over all warehouses is natural (`StockNeverNegative`
and `SumIsNat`), so the average weighs two numbers in the range with natural weights that
are not both zero, and rounding half up does not leave a range of whole cents.

*Refinement.* A commit of the engine writes the rows of all the lines of its request, an
action of `StockLedger` moves the amounts of one operation. `AskedInv` closes the gap: it
keeps what the request was begun with, so that the lines it has come past are those its
operation asks for (`Asked`) and all of them are written (`Written`). With one process
every commit is then the ledger's operation of the same name, and every other step, a
rollback included, leaves the ledger alone.

*Appointments.* The reason stock leaves once is not in the lines of `review` but in
the conditional update at its end: what the review has read (`RequestOK`) must still
be the status, that status allows the decision, and from a status that holds the
slot nothing has been issued (`NothingIssuedYet`). None of the three is enough
alone. `OverbookingBound` counts: a booking that is let in saw fewer holders than a capacity
that was once set (`CapacityWasSet`), so with the others that are let in at that moment,
at most all the processes but one, the bound holds; an insertion moves one from those let in
to the holders, and holders otherwise only become fewer.

*Document control.* Version numbers stay contiguous because an upload is about the
version after one the document had, and the unique index refuses it where that
version exists by now; decisions and submissions are about versions it had
(`RequestOK`). What is refuted under overlap is proved without it: `SerialInv` adds
that what the only request has read is still true (`Undisturbed`), from the upload
in storage under the name the version will have to the reviewers it has counted,
and that a document in review has been rejected by nobody. The theorems on `Spec` are
about one process; those on `HSpec` are about the behaviours the runs explore: any number
of processes, of which no two have been in flight at once so far. `AloneInv` says that
until then at most one is in flight and `SerialInv` holds. Both include every failure in
between.

*Maintenance.* `OneOpenPerSchedule` is not inductive: a work order that is about to be
reopened is not active yet. `OneClaim` counts it from the moment its transaction has
passed the index: one work order is open *or about to be* for each schedule. It is
kept because the index looks at the open ones (`Refused`) and waits for the others
(`MustWait`), and because transactions exclude each other on a row (`Exclusive`).
`DueAfterService` rests on `ServiceThenDue`, that the dates a transaction is going
to write are in order, and on the arithmetic of the catch-up (`CatchUp`,
`NextDueFacts`). Its hypothesis is the one the code relies on: no service is so late
that 5000 intervals do not reach it. The `Alone` theorems are about requests at the desk
and at the work orders alike (`InFlight`); their `AloneInv` adds what a lone request has
seen of the asset (`Undisturbed`, `Attended`): a transaction that closes the last active
work order has the asset to put back, one that decommissions it has found it at home, a
run opens work orders for dates it read and nobody has moved.

*Accounting.* What a payment under way remembers: it is no more than what remained when
the invoice was read, and that is no less than what remains now, because payments only
grow (`Remembered`). So the payment that marks the invoice PAID covers it even if others
have committed in between. Without overlap the remainder is exact, and since totals and
payments are whole cents, rounding up cannot exceed it (`CentsFacts`).

*Reminders.* Whoever gathers or mails has won the claim of today and nobody has mailed
before; whoever is about to claim has read the date of an earlier day, so the conditional
update succeeds for one of them.

*Workflow.* A clerk's move was legal on the row the clerk read, and is on the row as it
is unless the clerk is stale; what is reimbursed was decided at the time of the read, and
the write carries that date along (`Remembers`).

*Incidents.* An officer whom no write has overtaken still acts on the incident as it is:
the move is legal and, if it closes, every measure is completed (`Informed`). It is kept
because each write of the incident or of a measure overtakes everybody else.

*Attendance.* A day's punctuality is decided from the shift read with the employee, and the
row is written later: `Worked` ties what a click will write to the shift it has read, `Right`
is the property of each day, with the order of its two times unless two clicks crossed.

*Schedule.* An edit is checked as a whole and written key by key. `ScheduleInv` says of a
save that neither overlaps nor is cut short that the keys before its next one are those of
the merged schedule, so that the last key makes it whole (`OnItsWay`); of every other, only
that each key stays within its own limits. That a schedule that passed the check has an hour
to book is the lemma about `Slots`.

*Appraisals.* `Fresh` says of a lone request that what it has counted is so: it is the last
reviewer exactly if all the others have given their review, and the average it will store is
the one with its own rating. `CompletedWasReviewed` needs only what every request has heard
itself (`Heard`), because no review is taken back.

*Access.* `NobodyWalksIn` needs that a decision to enable or disable is about somebody
who had been let in, and that a row about to be created is usable only through a group.
`AloneAdminRemains` needs `WritesSafely`: when a decision writes, another admin is there
or the write leaves its user one; it is kept because without a second decision nobody
else takes an admin's place away (`OneDecision`), the guard's writes least of all.

*The page at work.* Two things make a page right: that its tables agree with those of the
server, and that no interleaving of fetches, answers, mutations, role switches and other
people's writes defeats what they say. The first is a statement about constants alone,
`PagesFit`: whoever sees a query or an offer may call it, but for what `KnownRefusals` names,
what a service makes of a status is one the page can show, and every offer forgets the
queries it changes, but for what `LeftBehind` names. It is an assumption that TLC evaluates on
every page, query and offer, which is all there is of it: the tables are fixed data and not
an instance of something larger. For the same reason `OffersAccepted` is left to TLC. The
second is what the theorems prove from `PagesFit`, whatever the tables are: `ClientInv`
says that an answer on its way that misses a change of this page has that change's
invalidation still to come (`OwnChange`), and that an answer of another role is on its way only
in `doubt`.

*Types of the offices.* `MCOffice` runs one office at a time, and the theorem shows that each
keeps its own invariant while the others stand still.

**Assumptions.** They are those on the constants, named, and evaluated by TLC in each run:

- quantities, amounts, prices, counts and bounds are naturals, quantities and intervals positive;
  a rating is one to five;
- `Null` and `NoOne` are no row, status, rating, file or user, as SQL's NULL is none;
- the sets of appointments, processes, reviewers, workers, clerks and warehouses are finite, and so
  is that of prices (`Decimal(18, 2)`): what is counted or summed must be;
- there is a largest capacity, the one the check of the settings allows (`AppointmentsAssumption`);
- what HR enters for a day are a status and two times, or nothing (`EntriesAssumption`);
- the default schedule passes the check that edits have to pass (`ScheduleAssumption`), which the
  code does not check: `DEFAULT_SCHEDULE` is read when nothing is stored, and merged with edits;
- the tables of the pages fit (`PagesFit`), see above.

`Alone` (one process) and `LastDay < MAX_CATCH_UP_STEPS` are hypotheses of the theorems that state
them. The first is the restriction under which these properties hold at all (`inventory_drift`).

**Only model-checked** is what no prover here can reach: the liveness properties
`EveryRequestEnds`, `DueIsOpened` and `GateOpens` under fairness; and what compares the fixed
tables of pages and server, `PagesFit` and `OffersAccepted`, where TLC meets every page, offer,
status and role there is.


## 5. Not modelled

- Validation of request bodies, and what queries, lists, searches and reports compute:
  only which tables they answer from.
- In modelled components: editing of descriptive fields, categories and warehouses;
  vendors; the creation of shifts; `completeProfile`; calendar months and years
  (`schedule-dates.ts`) and time zones, which are pure conversions of dates.
- The verification of tokens and the login redirects: libraries and Cognito.
- Mail about single decisions and the rows of the activity log: written after the
  answer, never awaited, never read back by the logic. Pages that list the log may miss
  the newest row; `Client` leaves these rows out.
- In the frontend: layout, forms, what they check, charts, and lists inside dialogs,
  which are loaded each time a dialog opens.
- The infrastructure.

## 6. Plan

1. *(done)* Inventory with its abstraction; appointments; document control; assets
   composed with maintenance; each with its inductive invariant proved.
2. *(done)* Access, accounting, incidents, the status workflows, appraisals, attendance,
   reminders, the store's hours, and the browser in front of all of it; the invariants of
   access, accounting, the reminder and the workflows proved.
3. *(done)* An inductive invariant, proved, behind every safety property that a passing
   run checks, save the comparison of tables, and the refinement of `StockLedger` for one process.
4. `ScheduleDates`: `addMonths` and `addInterval` as functions against a calendar.
