# A verification of the ERP server

This directory holds TLA+ modules that model the core of the ERP server (the TypeScript
code under `src/`), TLC configurations that check them on small instances, and theorems
about them that TLAPS proves for instances of any size. The code is the reference: every
definition that models code is listed in `PROJECT.json` under `map` with the lines it was
read from.

## The system

A Fastify HTTP server in front of one PostgreSQL database. A request goes through

    route (presentation/http/routes)
      -> application service (application/services): authorize, validate, decide
        -> UnitOfWork.runInTransaction: BEGIN ... COMMIT, or ROLLBACK when anything throws
          -> repositories (infrastructure/database/repositories), each statement inside
             withTenantContext, which joins the open transaction when there is one

There is no state between requests outside the database, several server processes may
serve it, and the isolation level is PostgreSQL's default, READ COMMITTED. So what has to be
got right is what happens between the statements of transactions that overlap, fail, or are
retried after an answer was lost: which rows are locked and when, which decisions rest on
rows read without a lock, which unique indexes stop a duplicate, and which version checks
stop a stale write.

### Inventory of components

| Component | State | Operations | Interacts with | Hard behaviour | What makes it correct |
|---|---|---|---|---|---|
| Inventory stock, reservations | `inventory_stock`, `inventory_reservations`, `inventory_movements`, `inventory_warehouses` | receive, return, reserve, release, fulfil, warehouses | called by sales orders and goods receipts inside their transactions | row locks, retries by operation key, deadlock of multi-line requests | counters equal the ledger; nothing promised twice; one issue per reservation |
| Item master | `inventory_items` | create, update, soft delete | read by inventory and quotations | master data changes between check and use | no effect on stock |
| Transaction runtime | connection, tenant settings | begin, commit, rollback, nested join | everything | crash and lost answer at any statement | all or nothing |
| Quotations | `sales_quotations`, items, `code_counters` | create, update, delete, transition | source of orders | stale transitions | lifecycle; conversion takes the accepted lines |
| Sales orders | `sales_orders`, items, `code_counters` | create, update, delete, transition, reserve, cancel with release | inventory | unlocked reads before writes, numbering | lifecycle; an order that says it is reserved has every line; its cancellation releases them |
| Procurement | purchase orders, requisitions, goods receipts | create, update, submit, cancel, complete a receipt | inventory, workflow | operation keys, two receipts of one order | never more received than ordered |
| Approval workflow | definitions, instances, levels, tasks, decisions | submit, decide, delegate, escalate | the document it decides | decisions after an edit or a cancel | only the approved version is approved |
| Scheduled jobs, notifications, outbox | `scheduled_jobs`, `notifications`, `notification_delivery_attempts`, `outbox_events` | schedule, claim under a lease, run, report | external providers; events of every other component | death between effect and report, expired leases, lost answers | the log tells what happened; attempts are bounded; what is settled stays |
| Sessions, tokens | `user_sessions`, `refresh_token_history`, `pending_login_challenges`, `identity_credentials` | login, select a context, validate, rotate, log out, administrative ends | users, memberships | two requests with one challenge; rotation against an end | one session per challenge; a replayed token ends its session; ended is ended |
| Multi-factor, account security | `mfa_enrollments`, `mfa_recovery_codes`, verification and reset tokens | enroll, confirm, verify, disable; request and use a link | users, notifications, sessions | a second enrollment between comparison and activation | only a confirmed secret is enabled; links and codes work once |
| Authorization | roles, grants, assignments, modules, branch access | checks of routes and services; administration | every business request | revocation between two checks | what was taken before a request began is not used by it |
| Platform and tenants | `platform_memberships`, platform roles, `tenants` with all they need, modules | members, roles, tenant creation, modules, status | authorization; bootstrap | overlapping administrators, partial creation, slugs given away | nothing is a mixture of two requests; a tenant is whole; one holder |
| Customers, suppliers, price lists, discounts, taxes, requisitions | a versioned row each, prices, sections | read, edit, publish, delete | quotations, purchase orders | edits from what was read before; concurrent prices | no lost change; a quoted price stands |
| Commercial calculation | none | calculate | quotations | rounding | totals add up |
| Deployment | migration table, schema, role, security contract, administrator, reference data | provision, migrate, secure, seed, bootstrap, recover | everything reads what it leaves | two releases, death at any statement | what is recorded is there; a command that ends well has done its work |
| HR, manufacturing | employees, leave, payroll; machines, work orders | lifecycles, engines | workflow | stale transitions | lifecycles |
| Deliveries, invoices, returns, credit notes, finance | `sales_deliveries`, ... | lifecycles over reservations | inventory | - | every write fails in SQL today |
| Files, audit, reports, HTTP, front end | | | | | |

`PROJECT.json` lists each of them with what is modelled; the hazards of the code, each at
its line, are listed there too, with the properties that would catch them going wrong.

## The modules

| Module | Models | Reads as |
|---|---|---|
| `StockTypes` | the rows of the inventory tables | what a table adds up to: units held, moved, issued |
| `InventoryOps` | the methods of `PostgresInventoryRepository` that change stock | functions from a database to the set of databases they may leave: none when the method throws |
| `StockLedger` | nothing in the code: the promise | an abstract specification with reservations and movements, and no counters |
| `Inventory` | `InventoryService`, `ItemMasterService` | one action per operation, each one transaction |
| `InventoryTx` | the same methods, statement by statement, under `UnitOfWork` | concurrent transactions with row locks, snapshots, deadlocks, crashes |
| `SalesOrders` | `QuotationService`, `OrderService`, their repositories | calls that read (Begin...) and later write (End...), over `InventoryOps` |
| `PurchaseOrders` | purchase orders in `ProcurementService`, and `WorkflowService`, which decides them | calls that read and later write, and decisions, one transaction each |
| `GoodsReceipts` | goods receipts in `ProcurementService`, over `InventoryOps` | calls that lock the rows of receipt and order one after the other |
| `Workers` | `SchedulerWorker`, `NotificationDeliveryWorker`, `OutboxDispatcher` and their stores | rows that workers claim under leases, and reports that come late or not at all |
| `Sessions` | `UnifiedAuthenticationService`, `AuthenticationService`, `RefreshTokenRotationService`, the operations that end sessions | one identity; requests that run through several statements |
| `AccountSecurity` | `MfaService`, `AccountSecurityService`, their routes | one account; requests that run through several transactions |
| `Access` | middleware, `AuthorizationService`, `ModuleAccessService`, branch context, the administration of roles | one user; each check is a query of its own |
| `Platform` | the platform's routes, `TenantBootstrapService`, `TenantAdministrationService` | requests under row locks and unique indexes |
| `CommercialRecords` | customers, suppliers, price lists, discount rules, tax rules, requisitions | one record of any of the six kinds: clients that read it and later write it |
| `Deployment` | `provision.ts`, `migrate.ts`, the security bootstrap, the seeds, the operator's commands | processes that run one command each, and die |
| `InventoryOpsProofs` | - | lemmas about the operations on stock |
| `InventoryTxProofs`, `SalesOrdersProofs`, `PurchaseOrdersProofs`, `GoodsReceiptsProofs` | - | theorems of the modules they are named for |
| `InventoryProofs` | - | theorems of `Inventory` and of `CommercialRecords` |
| `SessionsProofs` | - | theorems of `Sessions`, `Access` and `AccountSecurity` |
| `WorkersProofs` | - | theorems of `Workers`, `Platform` and `Deployment` |
| `MC...` | - | instances for TLC |

`InventoryOps` is used by `Inventory`, where each operation is a step, and by `SalesOrders`,
where the operations of all lines of an order are one step, as they are in one transaction.
`StockLedger` is implemented by `Inventory` and by `InventoryTx` (the property
`ImplementsLedger` of each) and by `SalesOrders` (a theorem): in the first and the last the
mapping is the identity on two of its tables, in the second it takes the committed tables.

### How state and actions correspond to the code

*Rows.* A stock row is identified by warehouse and item, a reservation by its source document
and item (`uq_inventory_reservation_source_item`), a movement by its operation key (unique per
tenant). One tenant is modelled. A stock row of zeros stands for one that is not there yet,
since `ensureStock` inserts it before any use.

*Branches.* A branch with its financial year is a working context. Reads by key look in the
caller's branch, unique indexes span the tenant: a key used in another branch is not found
and then collides, and `AddStock`, `FulfillReservation` and `InsertRow` say so.

*Throwing.* A method that throws makes its transaction roll back, so in `Inventory` and
`SalesOrders` it is no step, or the step that ends the call and changes nothing else.

*Statements (InventoryTx).* `cur` holds uncommitted writes, `db` what is committed; a
transaction sees its own rows in `cur` and everybody else's in `db`. UPDATE, SELECT FOR
UPDATE and INSERT under a unique index wait while another transaction owns the row or key,
and look at it afresh when they get it, as READ COMMITTED does. `Fail` is a crash, a broken
connection or the 30 s statement timeout, at any point; the caller may then ask again.

*Calls (SalesOrders).* A call reads the document without a lock, and only later reaches the
statements that lock and write. From the first lock to the commit nothing another transaction does
can change what the rest of the call computes (the write locks are kept until the end), so that part
is one step; that such transactions behave as if alone is what `InventoryTx` shows, and its theorem
`LedgerRefinement` proves, of the statements themselves. Lines of different items touch different
rows, so what the transaction leaves is put together item by item (`AllItems`), or is nothing when
one of them throws; of two lines of one item the second finds the first one's reservation, and is
answered with it or refused. The version a caller sends is one the document had when the call read
it or before. Other users of the inventory (`InventoryUser`) receive, and reserve, release and
fulfil for any document, an order too, because the inventory's routes take any source. What they do
so is not in the order's `reserved` (its `reservation_status`): an order may hold stock for all its
lines and say NOT_RESERVED, and its cancellation then releases nothing. Hence `CancelReleases` is
about orders that say they are reserved, and `ReservedWhole` about what such an order has, whoever
reserved it.

*Approvals (PurchaseOrders).* A workflow instance is identified by the order and the version the
submission made, which are its operation key. A decision locks the instance, so it is one
step; when it settles the instance, the order's UPDATE must find the version the instance was
started for, or everything is rolled back and there is no step. The instance's own version
only refuses deciders who did not see the last decision, and is left out. Which definition is
in force is an input, `ChangeDefinition`: activating one through the code always fails
(`postgres-workflow-repository.ts:42`, a parameter without a type), as does delegating a task
(`:205`); definitions come into the database by other ways. A level may have no approver at all,
because `createDefinition` only asks for a level (`workflow-service.ts:36`): an order submitted
under such a definition waits until it is cancelled.

*Receipts (GoodsReceipts).* Row locks are explicit because the two calls take them in different
order: `createReceipt` the order and then, on a conflict, the receipt; `completeReceipt` the
receipt and then the order. What follows the last lock is one step; the lines of a completed
receipt have rows of their own in it, one movement each. `KeysOf` says which
operation keys callers use for which order. The keys of the movements that a completion posts are
assumed to be used by nobody else; the inventory's own routes take any key, and a receipt line whose
key they used would be taken for posted. An order that is APPROVED stays so, which is what
`OrderLifecycle` of `PurchaseOrders` says, and so the order is here only a member of `approved`.

*Workers.* A claim, an execution and a report are a step each; the lease may end between any two.
A claim and a report are one statement, or one transaction on one row, and an execution takes
effect in the world outside. `ReportThrows` and `ConfirmThrows` are reports that were applied
or not but not answered; the code then takes its error path, which reports a failure. What kind
of work the rows are is chosen at the start. Who calls the workers is not in the repository:
nothing under `src/` but the unit tests makes one or calls `runNext` or `dispatchBatch` (neither
`main.ts` nor `app.ts` does), so `Turn` says what a call does, nothing says that there is one, and
no property says that work is done in the end.

*Sessions.* `request[r].at` is the statement that a sign-in has reached; other requests and the
administrative operations act between any two. A signed token has no random part, so two
rotations in one second give one token; tokens are numbered by seconds. `wrong` and `replayed`
are history variables that the two properties they serve are stated with.

*Account security.* Transactions on the same rows of multi-factor authentication are one step,
because each begins with a row that the other needs; transactions for links overlap and are two
steps, the second seeing what was committed when the first statement ran. `shown`, `batch` and
`handed` remember which secret was proved and whose codes there are.

*Access.* A request of `Works` goes through the checks in the order of the code: the module and the
permission in the route, the module, the branch and the permission in the service, then the
write. `denied` collects the checks that would have failed at every moment since the request began.

*Platform.* A transaction that others may interleave with keeps what it has done in its request
until it commits; `Locked`, `ActiveFree` and `SlugFree` are the row locks and the unique indexes
that make others wait or fail. A tenant in creation is visible when its transaction commits. The
requests of a tenant's own administration (`OfTenants`) are authorized by a permission in that tenant,
which `Access` models; here they ask for a tenant that can be seen.

*Records.* The six kinds differ in which status allows a change, in whether the version a client read
must be sent, and in what a read is made of. Fields are one value, the sections of a customer
another; a price list has the periods of one item. A new price is a step for the advisory lock and
look at other periods, one for the insert and one for the commit.

*Deployment.* A process keeps which command it runs, how far it is and what it has read. `schema[m]`
is what the database has of migration `m`: nothing; not all of the objects by which
`migrationChecks` recognises it (`partial`); these objects, though the rest may differ (`similar`);
all of it. A file with a COMMIT of its own is in the schema before it is recorded. `history` says
how the migration table relates to the schema at first: it tells the truth (`intact`); a recorded
file was edited since, which changes its hash, so that it counts as not recorded (`edited`); the
table was lost while one migration may differ in any way (`lost`); it is that of another journal
(`foreign`). `login` has the rows of `auth_login_identifiers`, which a trigger writes for every
active user (`SaveUser`, `RetireUser`) and the seed and the bootstrap for theirs. The seed makes an
administrator of the identity that has its username, whoever that is. Administrators appoint and
dismiss others meanwhile (`Appoint`, `Dismiss`).

*Abstracted.* Amounts, names, dates and texts; quantities are small natural numbers, with the
rounding of decimals left out; authorization is assumed to have succeeded, because it is
decided before the transaction and writes nothing; the audit row is written in the same
transaction and exists exactly when the change does.

## The runs

| Run | Asks | Bounds |
|---|---|---|
| `inventory` | Do counters, reservations and movements stay consistent, and is the ledger kept, under any sequence of operations, each of them whole, with retries, foreign branches and changing master data? | 1 stock row, 2 sources, 2 branches, 3 keys, quantities 1-2 |
| `inventory_tx` | The same of overlapping transactions, statement by statement; and is every request answered? | 2 clients, 7 requests, 2 stock rows, 3 keys |
| `sales_orders` | Do quotations and orders keep their lifecycle, and does what an order says of its reservation stay true, when calls overlap and others use the inventory? | 1 quotation, 1 order, which is the only source of reservations, 2 clients, 2 items, 3 keys, versions up to 4 |
| `purchase_orders` | Is exactly the accepted version of an order approved, whatever is edited, cancelled and decided meanwhile; can an order under approval always be decided, if its levels have approvers? | 1 order, 2 clients, 2 approvers, 4 definitions, versions up to 6 |
| `goods_receipts` | Is more never received than ordered, and a receipt completed exactly when its lines are in stock, when calls overlap and fail? | 2 orders, 3 receipts, 2 clients, 2 items, 2 warehouses, quantities 1-2 |
| `workers` | Does the log tell what happened to a notification, is work counted, and does what is settled stay, when leases end, answers are lost and a worker dies? | 2 rows, 2 workers, 2 attempts, batches of 2, 1 death |
| `sessions` | Does a challenge yield one session, does a replayed token end its session, is what ended over, and are wrong passwords counted, when sign-ins, rotations and administrators overlap? | 1 tenant and 1 platform membership, 2 requests, 1 challenge, 2 sessions, lock after 2 failures, 1 second with a rotation |
| `account_security` | Is only a confirmed secret enabled, with its own recovery codes, and does a link work once and not after a later one? | 2 requests at a time, 4 in all, 2 enrollments with 2 codes, 3 links of each kind |
| `access` | Is what was taken from a user before a request began never used by it? | 2 roles, 2 codes, 1 permission, 1 branch, 1 request of the user, 1 of an administrator |
| `platform` | Are roles and permissions those of one request, is a tenant whole or not there, and is an identity or a slug held once? | 2 identities, 3 memberships, 1 role, 2 tenants, 1 slug, 5 requests, 2 at a time |
| `commercial_records` | Is no change lost that states the version it was made from, and does a quoted answer stand? | 3 clients, of which one does not send the version where it is optional; 4 days, versions up to 5 |
| `deployment` | Is what is recorded there, does a command that succeeded leave what it is for, does no migration run behind a later one, and does every command end? Do the seeds create one administrator at most, whatever usernames they are given and whoever has these, and is each of the operator's commands used once? | 2 processes, 2 starts of each; either provisioning, security and reference data, 5 migrations, 2 releases; or seeds, bootstrap and recovery, 2 usernames, 1 e-mail, 1 tenant user, 1 dismissal |

Why these bounds are enough for the interesting cases. In `inventory` two sources compete for one
row whose stock covers only one of them, the second branch uses the first one's keys, and three keys
allow receipt, issue and return, each retried. More rows would only repeat the same row, since no
operation touches two. What operations do to each other midway is not asked there but in
`inventory_tx`: in it two orders reserve the same two items in opposite order (the deadlock), a
two-line receipt is retried under its keys, and a reservation is released and fulfilled at once by
two branches. In `sales_orders` the line lists are two items, the same item twice, and a line with
no item; four versions allow a reservation, a cancellation and an edit in between, and others
reserve, release and fulfil for the order itself. In `purchase_orders` the definitions ask for
nothing, for all of two approvers, for any of two on one level and one of them again on another, and
for a level that nobody is on; six versions allow a submission, a correction, a second submission
and its decision, with the first instance still there to be decided. Orders do not meet each other,
so one is enough. In `goods_receipts` either receipt of the first order fits it and both do not, so
two completions compete, and the two warehouses close and open in between.

In `workers` one row is an event and the other of any kind, so that a batch can have two events; two
workers are the one that lost its lease and the one that has it, and two attempts are one that is
repeated and a last one. In `sessions` two contexts make a login ask for a choice and one does not;
both requests may present the one challenge. In `account_security` the second enrollment replaces
the first between its comparison and its activation, and three links allow two that overlap and a
later one. In `access` the user may have the permission by either of two roles, and one
administrator's request of several statements is enough to be overtaken by the user's and by every
administration in one statement. In `platform` the three memberships are the one of an identity that
is suspended, its second, and another's; the two tenants want one slug. In `commercial_records` four
days hold two periods that touch, and one that ends before another begins. In `deployment` the five
migrations are the baseline, recognised by tables, a function and a policy, one that is recognised
by its table, the one that is compared in every detail, a file that commits itself, and, in the
newer release, one that grants what the security bootstrap revokes. Any one of those of the older
release may differ from its file in any way when the table was lost or the file edited; then all
migrations of that release were applied, while new and intact databases may end at any migration. Its
other initial states are those of administration, in an intact database: either
process is a seed, a bootstrap or a recovery under either username, and the tenant user takes and
loses the usernames and the e-mail. `MCDeployment` says in `ProvisioningInit` and
`AdministratorsInit` which initial states of `DeploymentInit` these are, and starts from one of those
that differ only in which process or username is which. That seeds and
deployments meet is seen of two deployments, whose seeds they are.

`MaxVersion` stops new calls on a document of that version; `OpKeys` bounds the movements;
`MaxCrashes`, `MaxRuns`, `MaxDismissals`, `MaxRequests`, `MaxSecret`, `MaxLink` and `MaxSecond`
bound deaths, starts, dismissed identities, requests, enrollments, links and rotations. Keys,
branches, clients, requests, sessions and contents are interchangeable and declared symmetric in
runs that check no liveness. Deadlock is not checked in `workers`, `sessions`, `account_security`,
`platform`, `commercial_records` and `deployment`, because those systems stop: a row is settled, a
record deleted or archived, a bounded number of requests served or of processes started. Every other
run checks it.

`TypeOK` is among the properties of `inventory` only; the other modules state theirs as the
description of their variables.

### What the code does not keep

A property of the following list is what a document says of the code, and what TLC finds
violated by the model of the code; each configuration reproduces the shortest behaviour
(`tlc -config InventoryInactive.cfg MCInventory`, and so on). They are not among the runs, which
pass.

* **`InventoryInactive.cfg`** (`MCInventory`), `FulfilOnlyFromActiveWarehouse`, ADR-0034:
  `fulfillReservation` never reads the warehouse, so stock reserved before the warehouse was
  deactivated is issued from it.
* **`SalesCancelRace.cfg`** (`MCSalesOrders`), `CancelledHoldsNothing`, the roadmap:
  `OrderService.reserve` reads the order, a cancellation commits, and the reservation goes on:
  `updateReservationStatus` checks neither status nor version. The order ends CANCELLED with
  RESERVED stock, and a second cancellation is refused. What the inventory's own route reserved for
  an order that is NOT_RESERVED is not released either, because `transition` then lists nothing.
  What does hold is `CancelReleases`: the commit that cancels an order which says it is reserved
  leaves nothing reserved for its lines at that moment.
* **`SalesNumbering.cfg`** (`MCSalesOrders`), `NumbersCollisionSafe`, ADR-0026: the counter row is
  found by branch, the number is unique in the tenant. The first document of a second branch gets a
  number that is taken; the rollback takes the counter back with it, so the branch can never create
  a document.
* **`PurchaseRejection.cfg`** (`MCPurchaseOrders`), `RejectionEndsInstance`, ADR-0043: `decide` locks
  the instance but never looks at its status. After one approver has rejected, a task that is still
  pending can be approved, and the instance goes from REJECTED to RUNNING. The order is safe: it
  has moved on, and the version check rolls back whatever would settle the instance a second time
  (`ApprovedAsAccepted` holds).
* **`ReceiptKeyRace.cfg`** (`MCGoodsReceipts`), `FinishedReceiptsImmutable`, the procurement document:
  two calls with the same operation key for receipts of two orders. Each locks its own order, so
  neither waits for the other, and both find the key unused. The first is inserted, and may be
  completed; the second's INSERT turns into an update of that receipt, and its lines are added to
  it: they count as received of the first order and are never posted to stock. In `goods_receipts`,
  where a key belongs to one order, the lock of the order makes this impossible.

`PROJECT.json` lists these and further differences between code and documents met while modelling,
under `findings`. The modules follow the code in each of them: in `Workers` a job whose worker died
stays `running`, and a recurring job stops after `max_attempts` runs; in `Access` a role may be
deleted while it is being assigned, and two replacements of its permissions leave the union; in
`Deployment` the operator's bootstrap and the seed take different locks, and a seed whose username a
tenant user or a former administrator has makes an administrator of that identity beside any other,
so `AdministratorsMadeOnce` counts the administrators that the seeds create and what each command of
the operator does; and a lost migration table, or an edited file, makes `migrate.ts` record what it
recognises by a table although the rest differs, so `RecordedIsThere` promises of such a database
only the objects that are looked for. Nothing calls the workers at all, so that an event once
recorded stays in the outbox.

### Fairness

`InventoryTx` and `Deployment` have a liveness property. In `InventoryTx`, strong fairness of each
client's step stands for PostgreSQL's lock queue, which is first come, first served: a statement
whose lock is free again and again gets it. The weak fairness of `AbortVictim` is the deadlock
detector, which runs after `deadlock_timeout`. In `Deployment` a process that runs goes on, with
strong fairness for the advisory lock that the others take and release. Nothing is assumed of
failures, deaths, callers, administrators, polls of the workers or master data.

## What is proved

TLAPS checks theorems about all twelve components for any finite sets and any bounds, from the named
assumptions of the modules themselves: every property that a run checks, but for liveness, is also
a theorem. Each module has one inductive invariant, proved as its theorem `Invariance`
(`AccessInvariance`, `AccountInvariance`, `RecordsInvariance`, `PlatformInvariance` and
`DeploymentInvariance` for the components that share a proof module with another, whose
specifications have such names too: `AccessSpec`, `PlatformNext`, ...); the others follow from it,
the action properties together with the step.

| Module | Theorem | States |
|---|---|---|
| `Inventory` | `TypeCorrect`, `CountersExact`, `NoOverselling`, `IssuedAtMostOnce` | the four invariants of the run `inventory` |
| | `LedgerRefinement` | `ImplementsLedger`: `Inventory` implements `StockLedger` |
| `InventoryTx` | `CommittedCountersExact` | `CommittedCountersMatchLedger` |
| | `LedgerRefinement` | `ImplementsLedger`: concurrent transactions implement `StockLedger`, one step to a commit |
| `SalesOrders` | `OrdersComeFromQuotations` | `OrderMatchesQuotation` |
| | `OrdersFollowTransitions`, `CancellingReleases`, `ReservingIsWhole` | `OrderLifecycle`, `CancelReleases`, `ReservedWhole` |
| | `OrdersKeepStockSound`, `LedgerRefinement` | the database stays `Sound`; `SalesOrders` implements `StockLedger` |
| `PurchaseOrders` | `SubmittedDecidable` | `SubmittedIsDecidable` |
| | `ApprovalsAccepted`, `OrdersFollowLifecycle` | `ApprovedAsAccepted`, `OrderLifecycle` |
| `GoodsReceipts` | `ReceivedWithinOrder`, `PostedWithCompletion` | `NeverOverReceived`, `CompletedMeansPosted`, if no key is used for two orders |
| | `ReceiptsEndOnce` | `ReceiptLifecycle`, however keys are used |
| `Workers` | `LogTruthful`, `ExecutionsCounted` | `NotificationLog`, `ExecutionsAccounted` |
| | `SettledForGood` | `SettledStays` |
| `Sessions` | `OneSessionPerChallenge`, `ReplayEnds`, `FailuresCountExactly` | `ChallengeYieldsOneSession`, `ReplayEndsSession`, `FailuresCounted` |
| | `EndsAreFinal` | `EndIsFinal` |
| `Access` | `RevocationsHold` | `RevocationHolds` |
| `AccountSecurity` | `EnabledWasProved`, `CodesAreOfTheSecret`, `LaterLinksReplace` | `ProvedBeforeEnabled`, `CodesBelong`, `LaterLinkReplaces` |
| `CommercialRecords` | `NoChangeLost`, `QuotedStays` | `SavesOverWhatWasRead`, `QuotedAnswerStands` |
| `Platform` | `NeverAMixture`, `TenantsAreWhole`, `HeldByOne` | `GivenByOneRequest`, `TenantsWhole`, `HeldOnce` |
| `Deployment` | `RecordedMigrations`, `DoneMeansReady`, `OneAdministrator` | `RecordedIsThere`, `ReadyWhenDone`, `AdministratorsMadeOnce` |
| | `NoStepBehindALaterOne` | `NeverBehindALaterOne` |

That the variables have their types is also a theorem of each module. TLC has checked each inductive
invariant on the instance of the module's run before its proof was written.

### The inductive invariants

*Inventory.* The four invariants are not inductive one by one: that a release may subtract its
quantity from `reserved` needs that `reserved` counts this very reservation, and that a movement may
be added needs that no fulfilled reservation loses its issue. The inductive invariant is `Sound`,
defined on a database rather than on the variables: every row has its type; the counters equal the
totals; a reservation is FULFILLED exactly when one movement issued it; and what is reserved is
covered by what is on hand. Because it speaks of a database, the facts about the four writes
(`AddedSound`, `ReservedSound`, `ReleasedSound`, `FulfilledSound` in `InventoryOpsProofs`) also say
that each extends the history as the ledger requires. From them follow facts about the operations
themselves (`AddSteps`, `ReserveSteps`, `ReleaseSteps`, `FulfillSteps`), which the proofs of
`Inventory` and `SalesOrders` share. Totals are cardinalities of sets with one element per unit of
quantity, so that what an operation does to a total is a fact about a disjoint union (`UnitSplit`,
`HeldChange`, `MovedChange`) and no induction over data is needed. The refinement follows step by
step, with `Solvent` from `SoundIsSolvent`.

*InventoryTx.* Between two statements of one operation neither the committed rows nor the current
ones are a sound database: the counter is already changed and the row that accounts for it not yet
written. The invariant speaks of the `Settled` database instead, in which each operation that is
complete, committed or not, is done and the others have not begun: it is `Sound`, it continues the
history of the committed one, and a step either leaves it as it is or does what the same operation
does in `InventoryOps`, so that the lemmas about `Sound` are those of `Inventory`. What makes this
inductive are the locks. What nobody holds is committed (`FreeIsCommitted`), so what a client finds
under a lock is current. Who has written a reservation holds it together with its stock row, and
who has written a movement holds the stock row and the reservation issued (`WrittenWithStock`); so
when a transaction ends, its rows are taken from one of two sound databases (the settled one at a
commit, the committed one at a rollback) and the others' rows from the other one, and rows that
differ in the two come with those they refer to. `MixSound` is the lemma that the mixture
is then sound. Where the client is tells what it has locked (`Ready`). Nothing in it depends on the
number of clients, on the operations of a request or on when a failure comes.

*SalesOrders.* Transitions and reservations act on what an unlocked read said. The invariant says
that this is true as long as the version the caller names is still the order's, and that this
version is not one to come; since every write counts the version up, a call that was overtaken is
refused. The case that needs care is a cancellation of an order that says it is reserved: the list
of reservations it made must hold every line that is still reserved when it commits. It does,
because what may reserve a line later, the order's own reservation, counts the version up too;
because a line that was reserved, by whomever, keeps its row, which nobody reserves again; and
because this row is of the order's branch, where the list looks (`ReservedWhole` is part of the
invariant). A reservation itself has no such check, and the invariant promises nothing of its
order's status (see `SalesCancelRace.cfg`). The stock is `Sound` before and after: operations that
are each sound on their own item are sound together (`TogetherSound`, `AllItemsSteps`), and an order
with any number of lines adds to the ledger's history in one step.

*PurchaseOrders.* A submission or a cancellation holds what it has read, which may be out of date;
what the invariant says of it is conditional on the version still being the one that was read,
which is just what the UPDATE's version check asks for. Of the instance of a submitted order's
present version it says that it is live: each level below the current one is accepted, and the
current one still has a task for each approver who has not decided. `ApprovalCounts` is the lemma
that an approval keeps that or accepts the last level. `ApprovedAsAccepted` rests on it, since the
only step to APPROVED is the approval that completes the instance of the very version, or a
submission under a definition that asks for none.

*GoodsReceipts.* What a completion has added up is true when it commits only because nothing could
be received in between, and that is so because it holds the order's lock. The invariant says of each
call which locks it holds, and, for a call that has checked the quantities, that they still fit. Under a
key of two orders the lock of one does not protect the other (see `ReceiptKeyRace.cfg`), hence the
hypothesis `KeysApart`, which is about the callers and not about the code. It is not needed for
types, locks and the life of a receipt.

*Workers.* That work takes effect at most `max_attempts` times does not follow from the number of
executions alone: workers that lost their lease may still be about to execute. The invariant
counts both: the executions of a row and the workers that have claimed it and not yet executed it are
together at most its attempts. The log is kept in order because an attempt that is being made is not
in it yet, and "sent" is the last word because the guards of `markSent` and `markFailed` ask for
status `processing`. Jobs need no such guard for what is proved: a late `complete` or `fail` of a job
does no more than the attempt it reports allows.

*Sessions.* A request that has read a challenge, a session or an account acts on it later; the invariant
says for each point of the code what may still be assumed there, and that it is the conditional UPDATE
(of the challenge, of the token's hash, of the counter), not what was read, that decides.

*Access.* A request is checked one query after the other and writes at the end. The invariant says, for
each position a request can have, which checks are behind it, and that each of them was met in some
state since the request began. Nothing says that they are still met: that is what a revocation between a
check and the write may change, and `RevocationHolds` promises no more than the code does.

*AccountSecurity.* Secrets, batches of codes and links are numbered in the order in which they were
made, so the invariant counts: an enrollment is activated at most once, a batch belongs to one
activation, and a code that is unused, or of a batch still to come, was never accepted. A
confirmation that proved a secret had a code of it shown. Of a link that is about to be created it
says that nobody else creates it, and that its request replaces every earlier one that is still live.

*CommercialRecords.* A copy that names the record's present version is the record itself. It is
stated with the version as a condition, as for orders, and holds because every change of a row
counts its version up. For the answers given to quotations the invariant keeps committed and pending
prices apart, and says that what was quoted is in force, which the publication of a list protects.

*Platform.* Two requests meet on a row only through its lock or a unique index. The invariant says
that no two requests hold one row, that what a request found under the lock (the roles it deletes,
the permissions it replaces) is there until it writes, and that a tenant whose creation is under way
cannot be seen, has exactly the parts inserted so far, and is created by one request. A mixture of
two requests is then impossible because deleting and inserting happen under one lock, not because
they are one statement.

*Deployment.* Three locks have three parts of the invariant: below the next migration of a process
everything is recorded; what a seed found, no seed has changed; what an operator's command found, no
such command has changed. The seed and the operator's commands take different locks, and who has an
identifier changes meanwhile, so the invariant does not say that there is one administrator. It
counts those that the seeds created (`SeedAdmins`), and it says that a seed about to write has the
identity of somebody known already, or a new one of its own and found no administrator: `Known` are
users and whoever is or was an administrator, and every active identifier belongs to one of them. Of
a recorded migration it says which of the four forms of the schema it may have, which depends on
`history`. For an intact database, records are without a gap and the schema is at most one migration
ahead of them, since a file that commits itself may be applied and not recorded; hence nothing is
applied behind a later migration.

### What is only model-checked

Liveness under fairness (`RequestsAnswered` and `CommandsEnd`) is out of the
prover's reach and stays with TLC. That every action can be taken is seen on the instances only.

## What is not modelled, and why

* Deliveries, invoices, sales returns, credit notes and finance postings: each of their writes
  is refused by PostgreSQL as it stands (`postgres-delivery-repository.ts:40`,
  `postgres-invoice-repository.ts:38` and `:60`, `postgres-sales-return-repository.ts:59` and
  `:77`, `postgres-credit-note-repository.ts:37`, `postgres-finance-repository.ts:26`), so their
  lifecycles do not run. With them goes `fulfillReservationsBySource`, which only they call.
* Editing a receipt (`postgres-procurement-repository.ts:347` names a column that does not exist),
  assigning a user to a branch and deleting a branch, which fail likewise, and the workflow of
  documents other than purchase orders.
* Row level security and the tenant settings of a connection: one tenant is modelled, except in
  `Platform`, which is about tenants.
* The arithmetic of the commercial calculation: decimal amounts and their rounding are a function
  of their inputs, without state.
* Human resources (but for the access of employees, in `Sessions`) and manufacturing: lifecycles
  of single rows that no other component reads.
* Signing and encryption, which are libraries'; the rotation of signing keys, which the running
  server does not use.
* Files, audit queries, reports, the HTTP layer and the front end change no state of their own
  or only that of an external service.

## Plan

1. Proofs. The lemmas that two components state alike (a call that names a version acts on what it
   read, in `SalesOrders`, `PurchaseOrders` and `CommercialRecords`) as one module.
2. `CommercialCalculation`: the proration and rounding as functions, against exact arithmetic.
3. `HumanResources` and `Manufacturing`: their lifecycles and the workflow that decides them.
