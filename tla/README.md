# A TLA+ model of alpha_pos_core

`alpha_pos_core` is the shared part of a point of sale for restaurants. A
*terminal* at each branch works offline on SQLite; a *hub* in the cloud
(Postgres) serves every branch. Both run the same Django applications, and two
editions that are not in this repository add the screens and the order and
payment endpoints. Almost everything that is hard to get right here follows
from that: rows are edited on both sides, travel late or twice, and money is
decided on reports that are already old.

The modules are written from the code under `src/`. `PROJECT.json` lists, for
each definition that stands for code, the lines it stands for ("map"), and for
each thing that can go wrong, the property that watches it ("hazards").

1. [Inventory](#1-inventory), 2. [Modules and runs](#2-modules-and-runs),
3. [Bounds and fairness](#3-bounds-and-fairness), 4. [What is proved](#4-what-is-proved),
5. [Where the code falls short of its words](#5-where-the-code-falls-short-of-its-words),
6. [Not modelled](#6-not-modelled), 7. [Plan](#7-plan).

## 1. Inventory

| Component | State | What is hard | What makes it correct | Modules |
|---|---|---|---|---|
| Change feed of the hub (`sync/feed_clock.py`, `views.py`, pull half of `service.py`) | a durable clock, `synced_at` of rows, cursors | callbacks after commit, pages read model by model, requests repeated | a terminal holds everything behind its cursor | `CloudFeed` |
| Outbox (`sync/queue.py`, `service.py`, `receiver.py`, `SyncMixin`) | rows, queue slots with generations, dead letters | answers lost, pushes that overlap, edits between send and acknowledgement, foreign keys, two rows for one person | no edit and no deletion is lost; both sides converge | `SyncOutbox`, `Identities` |
| Leases, cursors, replay generations (`sync/status.py`) | the position of a branch | a replay asked for during a pull, a lease that expires under a slow one | the cursor and a completed replay stand for applied rows | `PullReplay` |
| Idempotency (`security/idempotency.py`, the atomic commands) | one row per key | crashes between commit and answer, slow workers | executed once, answered truthfully | `Idempotency`, `AtomicCommand`, `OnceCommand` |
| Cash of a branch (`CashRegister`, `Inkassa`, `cashbox`) | balance, applied total, command rows | the cloud spends on an old report | no cash is promised twice or lost | `BranchCash` |
| Fiscal receipts (`fiscalization`) | receipt rows, mode | a network call between two transactions | reported once, proof kept | `FiscalReceipts` |
| Payment of an order (`tender.py`, `order_refund.py`, reconciliation) | header, lines, collections, refunds | evidence that arrives in parts, from two devices | attributed as it was settled; never refunded beyond what was paid | `OrderMoney` |
| Discounts (`discounts`) | codes, uses, totals | limits shared by orders | the counter is the uses, the limits hold | `Discounts` |
| Shifts (`core/shifts/service.py`) and treasury (`treasury_service.py`) | shifts, manifests, ledger entries | parts of a close that arrive in any order; posting twice | what is confirmed is what was frozen, and is posted once | `ShiftSettlement`, `Treasury` |
| Notifications (`notifications/services`) | queues in a process and in Redis | a crash with claimed items, a full queue | at-least-once for what is kept, once without a fault | `Notifications` |
| Loyalty, carts, QR orders | stamps, carts, orders | buttons tapped twice, updates redelivered | nothing counts twice | `Customers` |
| Licensing (`licensing/services`) | the row, its cached copies | a stale cache, old answers | served only while allowed, but for two cache lifetimes | `Licensing` |
| Stock (`stock/services`) | levels, batches, movements, the catalogue | several documents on one level; partial receipts; corrections undone | levels, reservations and batches agree with the documents | `StockLevels`, `StockRoom`, `StockTransfers`, `StockBatches`, `StockCatalogue`, `Recipes` |
| Purchasing and supplier ledger | orders, receivings, payments, the ledger | a status read without a lock; reversals | the debt is what the documents say | `SupplierDebt` |
| HR (`hr/services`) | expenses, salaries, cases, leave, attendance, audits | rows read, then written; payment from three sources | charged once, paid once, within the quota | `OfficeExpenses`, `ExpenseFiling`, `Payroll`, `StaffTime` |
| Realtime hints, authentication, language-model assistants, settings, repair commands | | | | not modelled |

How they interact: a command of a terminal is guarded by `Idempotency`, changes
rows and the register in one transaction, and queues them in the outbox
(`SyncMixin.save`). The sync worker pushes the queue and then pulls the feed in
every cycle (`management/commands/sync.py`). The hub's receiver writes the
rows, the publisher puts them into the feed, and the other side's pull applies
them; a pulled cash command moves the register in the same transaction. A shift
that was closed at a terminal becomes evidence at the hub, and its confirmation
posts to the treasury, from which HR and purchasing pay.

## 2. Modules and runs

A component that keeps its own state is a module; an `MC` module composes what
shares state or only shares a run. Where an `MC` module puts components side by
side that do *not* interact, a variable `part` (or `style`) chosen at the start
says which of them moves, so that the run is the sum and not the product of
them. Where they do interact (`MCOffice`, the levels of `MCStock`) they move
freely.

### CloudFeed (MCCloudFeed: `feed_pages`, `feed_retry`)
A hub write leaves `synced_at` NULL; a publisher that runs after the commit
draws a time from the clock (`Save`, `Publish`, `LosePublisher`). A page draws a
cutoff in its own transaction and then scans model by model: `SelectNull`,
`Promote`, `ReadWhole` or `ReadOverflow`, `Refetch`. A terminal walks the pages
with `Arrive`, `NextPage`, `FinishPull`, `StuckPull`; `TimeOut` sends the
request again while the first is still at work, `AbandonPull` is a crash, a
lost lease or records that stay deferred.

* `feed_pages`: three rows over two models, ties of legacy times, pages of one
  row, one handler, an answer that comes too late. `NothingBehindCursor` is the
  promise of the feed; `LaterPublicationIsVisible` is what it rests on.
* `feed_retry` (violation): the handler of a request the terminal no longer
  waits for promotes a row at its own, older cutoff (`views.py:614`), after the
  terminal has stored the newer cursor of its second request, and the terminal
  never sees the row. `feed_clock.py:59` promises a strictly newer time. The
  same happens without a timeout when two handlers serve one row to two
  terminals.

### SyncOutbox, Identities (MCSyncOutbox: `outbox_tree`)
`Create`, `Save`, `SoftDelete`, `HardDelete` change a row and its queue slot in
one transaction; `SyncQueue.clear` is an operator's command that may come at
any time. A push is `StartPush`, `Group`, `Send`, `Acknowledge`, `StampRow`,
`EndPush`; the hub handles a request record by record and knows a parent or
postpones the child; a pull fetches a row and applies, merges or skips it.
Generations are fresh tokens. A payload keeps its version, its deletion mark and
the last local edit it contains.

`Identities` is one person at two places: the hub's user and the one a terminal
made before it heard of the hub's. A push finds the hub's by e-mail and the
terminal re-keys its row, or a pull does so first; an order that names its
seller waits.

* `outbox_tree`: a parent and its child, or one row under two overlapping
  pushes as when a lease expires; a lost answer and a request that goes on
  late. `NoLostEdit`, `NoLostDeletion`; `Converges` and `IdentitiesMeet` under
  the fairness of the worker's loop.

### Idempotency, AtomicCommand, OnceCommand, ExpenseFiling (MCIdempotency: `idem_prompt`)
`OnceCommand` is the promise of a key: a command is executed at most once, the
answer kept is never replaced and agrees with what was done, success is told
only of the request's own command. Two decorators implement it, each shown by a
refinement mapping: `AtomicIsOnce` for the one that writes key, effect and
answer in one transaction, `LeasedIsOnce` for the one that claims the key,
runs the view and stores the answer in three. In the latter `TakeOver` is a
retry that finds the claim older than its time to live; `Prompt` is the
assumption that a request ends before that, `CommitCrash` that a process may
die between the view's commit and its answer, `SameAction` that the service
recognises the action id itself.

`ExpenseFiling` is a client of such keys: the categories of expenses, two
levels deep, and requests filed under them and moved by an action that is sent
again. A change that keeps its parent reads it without a lock and is two steps
(`BeginKeep`, `EndKeep`).

* `idem_prompt`: three requests under one key with two bodies by either
  decorator, one death, two retries that find the abandoned claim; or three
  categories and two requests moved twice.
  `ClaimsEnd`: no claim wedges its key, if requests end and clients repeat.

### BranchCash (MCBackOffice: `office_people`)
The register row and the copies of it that travel to the cloud (`Push`,
`Deliver`, `Lose`), the cloud's commands and their reversals (`Issue`, `Void`),
their arrival (`PullRow`, `Redeliver`) and the till's own movements. A command
is applied by comparing totals, all or none; a short drawer leaves the row
stored and the cursor where it was. The cloud's look at its own copy of the
drawer is left out, so that it may issue more here than in the code.

* In `office_people`: two commands and two cash-outs of the till, a drawer
  expense and a refund of each, with reports late, reordered or lost.
  `RegisterIsLedger` (an equality until the till pays a drawer expense, since
  the code keeps it no longer), `NoDoublePromise`, `Settles`.

### FiscalReceipts, OrderMoney, Discounts (MCCounter: `counter_sale`, `double_tap`)
`Call` and `Retry` enter `fiscalize_order`: mode and provider are read one after
the other, the row is committed as SENT, the provider answers (or the answer is
lost after it registered the sale), `Finish` writes the outcome. Nothing keeps
two calls for one sale apart but a CONFIRMED row. `Ages` and `Reap` move
stranded receipts back, `Sweep` lists the failed ones in the order in which they
were saved (`older`), and `Undo` is a sale whose payload cannot be built: the
exception ends a sweep with all that its list still holds. The provider is
external and may accept, refuse or go silent. Two counters are kept for the
properties only: `unsure`, documents whose answer no process stored, and
`together`, attempts begun while another was under way.

`OrderMoney` is what the hub knows of one order's payment: lines of two devices
that may each have settled it, the courier's collections, the header, arriving
in any order. `Split` is the attribution of the total to tenders; `RepairHeader`
and `Cancel`, `RefundByProvider` change it. `Discounts` are codes with their
limits applied to orders under locks, while an edit reads the row
(`LookToUpdate`) and later saves all of it, the counter too (`UpdateCoupon`);
`outdated` are the codes whose counter this has put back.

* `counter_sale`: `ConfirmedIsProved`, `NoNeedlessDuplicate` (a sale is reported
  once, and once more for an answer or a process that was lost and for an
  attempt that began beside another), `TenderRight` (the split adds up to the
  total, and is as the till settled it or says "unknown"), `RefundedOnce`,
  `UsesAreCounted` (but for the counter of a code in `outdated`), and `Settles`:
  every receipt ends confirmed or at the cap, unless a receipt without a payload
  stops every sweep.
* `double_tap` (violation): two overlapping calls report one paid sale twice
  with nothing lost (`fiscalization_service.py:80`), which the constraint of the
  receipt is said to prevent (`fiscalization/models.py:59`).

### ShiftSettlement, Treasury (MCDeliveries: `deliver_late`)
The terminal closes a shift with a manifest, exactly the rows its money is made
of. Header, orders, payments, refunds, expenses and totals travel one by one, in
any order and some of them twice, while the hub may refund an order or pay an
expense of a shift it takes for active. The hub acknowledges the close, and lets
a manager confirm it, only when what it holds is what the manifest says. The
confirmation posts a deposit for each tender to the accounts of `Treasury`, an
append-only book written together with the balance it changes.

* In `deliver_late`: two shifts, an order, a drawer expense, refunds and voids
  on either side. `SettledIsEvidence`: the evidence of a confirmed shift stays what
  the terminal froze, and the book holds what was confirmed. `CreditedOnce`: the
  book holds each row once and the balance is their sum. `CloseArrives`: a close
  becomes complete by itself when the hub made no row of its own.

### OfficeExpenses, SupplierDebt over Treasury (MCOffice: `office_supplier`)
Expense requests of an office, and orders, receivings with late edits, invoices,
corrections, payments and their reversals of one supplier, over the same two
accounts. Commands that move debt or money hold the supplier's lock and are one
step; a change of an order's status and an edit of a receiving's items read a
status without a lock and are two (`BeginChange`/`EndChange`, `BeginEdit`/`EndEdit`).

* `office_supplier`: `SupplierAccounts` (debt, ledger and documents agree) and
  `MoneyIsDocumented` (each account moved by what the documents say).

### StockLevels, StockRoom, StockTransfers, StockBatches, StockCatalogue, Recipes (MCStock: `stock_branch`, `edited_order`)
A service call posts a bag of movements under the locks of its levels
(`StockLevels!Post`). `StockRoom` has its callers: orders that reserve, deduct
and give back, production, and counts; `StockTransfers` those that move stock
between locations and, at the hub, read a status before they lock.
`StockBatches` are the lots of one item with corrections and reversals,
`StockCatalogue` and `Recipes` the trees whose links a deactivation, a move or a
new version could leave dangling. The steps of a recipe are rows with an id and
a number; a caller may name any number, the rows from a taken one on make room,
and `Reorder` renumbers the live ones as the caller lists them, so that gaps are
states of the model. The branch that the theorems are about (`BranchSpec`) has
orders, production, counts and transfers over the same levels.

* `stock_branch`: `RoomAccounts` (what is reserved is what is claimed; an order
  that has taken stock holds what it sells, and one that no edit has reduced
  gives back what it took), `TransferAccounts` (nothing is lost or received
  twice, also by two requests at once, but for a transfer that one of them wrote
  after the other had moved it: `overtaken`), `BatchAccounts`, `CatalogueHolds`,
  `RecipesHold`. Two orders meet production in one part, two requests of the
  hub a count in another.
* `edited_order` (violation): an order sells two, an edit returns one, and the
  cancellation returns both (`order_service.py:213`), though the comment at
  177-183 speaks of the remaining stock. `GivenBackOnce` is what it asks for.

### Notifications (MCDeliveries: `deliver_late`)
A saved order is dispatched once under the lock of its row; messages sit in the
queue of a web process, which dies with it, and after a failure in the retry
queue, of which a worker claims batches that survive it.

* In `deliver_late`: `RootOnce` (the creation of an order reaches no chat twice
  without a fault), `KeptUntilDone` (only a full queue or an operator takes away
  what is in the retry queue), `Drains`.

### Licensing, PullReplay (MCInstall: `install_branch`)
Heartbeats and setups save the licence row inside a transaction and delete its
cached copies before it commits; requests read the row in one step and fill the
caches in another. Ages stand for the clock. `PullReplay` is the position of a
branch in the feed: lease, checkpoints, generation, requests of a full replay,
and the clean-up of rows that are not its own.

* `install_branch`: `LicenceHolds`, `CursorIsApplied` (the published cursor and
  a completed replay stand for rows that were applied), `Recovers` (quarantined
  rows of the branch come back by the replay).

### Payroll, StaffTime, Customers (MCBackOffice: `office_people`)
A salary with its items and the cases charged to it, where `update`, `delete`,
`approve_all` and `generate_payroll` read first and write later (the clerk's
desk holds what was read); the leave of a year, where a cancellation reads the
balance and writes it later (`ReadBalance`, `GiveBack`; `misgiven` are returns of
a leave that was no longer approved or to a balance that had changed), the attendance of a day, audits;
stamps, carts and QR orders.

* `office_people`: `ChargedOnce`, `ShiftOwnsDrawer` (HR moves no cash of a
  drawer that an open shift owns), `UsedWithinQuota` (the days counted fit the
  quota, and the approved leaves fit the days counted unless one was misgiven),
  `ReportsAgree`, `NothingTwice`, and the properties of `BranchCash`.

## 3. Bounds and fairness

Every bound is a constant that stands in a guard (`Max...`, `Most...`, `Top`,
`Limits`), or a small set in the `.cfg`. They are chosen so that each hazard
happens: two writes of one row around a push, a lost answer and the batch sent
again; two versions of each row around a page; two handlers, pushes, callers,
clerks or requests of the hub, which is where the races are, since every
conflict in this code is decided, or missed, by one row between two parties;
three requests of a key and three leaves, where a third must meet the leftovers
of two; two orders over one slot; two receipts of which one starves the other;
amounts of one and two units where a limit must bite. Clocks and tokens are
small because only their order matters. `MostOutdated` and `MaxFlips` stop what
only repeats itself. Three guards of the `MC` modules keep cases apart that are
modelled each but not together: a receipt meets a fault or a change of the
settings, an order is canceled or its routing changes, and days pass only over
the code that expires. `CHECK_DEADLOCK FALSE` is set where the bounded business
may simply end; in `idem_prompt` and `install_branch` deadlock is checked.
`SYMMETRY` is used only in `stock_branch` and `office_supplier`, whose
properties are not liveness.

A theorem of section 4 has none of these bounds: there a bound is any number,
and a set any set (finite where the code counts it).

Fairness is that of the loops of the code, and stated where a liveness property
needs it. `Converges`, `IdentitiesMeet`, `Settles` of the cash and `CloseArrives`:
the sync worker pushes and pulls in every cycle and a request that is not lost
is answered (weak fairness of a push's steps, the hub's steps, the pull).
`Settles` of the receipts: a call ends, time passes, and the sweep is scheduled
again and again, and nothing more (no operator repairs a receipt that has no
payload, so the property allows for one). `ClaimsEnd`: a request is handled to its end, time passes,
and (strong fairness) a client repeats its request. `Drains`: the processors'
schedules. `Recovers`: a lease expires, a pull is started again. Nothing an
operator or a customer does is assumed to happen.

## 4. What is proved

TLAPS checks the theorems below for all values of the constants, under the
assumptions the modules name (`...Assumption`: what is a number, what is finite,
what is distinct). A theorem "of a property" states a property that a run
checks.

| Theorem | Property | What the inductive invariant adds, and why |
|---|---|---|
| `HubProofs!TypeCorrect`, `ClockCovers`, `PagesGoForward`, `CursorForward` | | `IInv`: the clock bounds every time in the system; a request's and a pull's cursors lie between the start of the pull and the cutoff. The last two are action properties |
| `HubProofs!LaterVisible` | `LaterPublicationIsVisible` | `CutoffInv`: a request at work is ahead of every stored cursor. Needs `OneHandler`, that the hub handles one feed request at a time, which is exactly what `feed_retry` lacks |
| `HubProofs!CursorProves` | `NothingBehindCursor` | `FeedInv`: what a page being built still owes (`ScanInv`): every row behind the place the scan has reached is in the page, in the terminal's memory, or published later. Needs `OneHandler` too |
| `HubProofs!RootSentOnce` | `RootOnce` | `NoticeInv`: unless a fault left a chat in doubt, its creation is in at most one of the places it may be: at one web process (`OneWeb`), once in the waiting list, once in what a pass has claimed (`ClaimedOnce`), or in the chat; and the hands of a web process hold one message with at most its ids to follow (`HandsRight`) |
| `HubProofs!NothingDropped` | `KeptUntilDone` | `KeptInv`: both lists together fit in the bound, so that what comes back from a pass has room, and each message a pass claimed is still to do, to come back, to be given up, or done (`BatchTold`). An action property |
| `SyncOutboxProofs!OutboxTypes`, `EditsArrive`, `DeletionsArrive` | `NoLostEdit`, `NoLostDeletion` | `OutboxInv`: whatever exists of a row, here, queued, in a snapshot or on the wire, are moments of one history in which versions and edits grow together and a token names one content; so an acknowledgement of a version is one of its edits |
| `CommandProofs!AtomicOnce` | `AtomicIsOnce` | refinement: initial states map to initial states, every step of `AtomicSpec` to a step or a stutter of `OnceCommand`. `AtomicInv`: one request at a time is between insert and commit; the row is the truth about the effects |
| `CommandProofs!LeasedOnce` | `LeasedIsOnce` | the same of the leased decorator, under `Dependable`: requests end in time, commit and answer are not torn apart, a repetition is let through no earlier than a takeover. `LeaseInv`: who runs the view holds the claim, alone and in time |
| `CommandProofs!RequestsStayFiled` | `FilingHolds` | `FilingInv`: the tree stays two levels deep also between the two steps of a change; an action property follows from it |
| `CommandProofs!OfficeMoneyDocumented` | `MoneyIsDocumented` | `MoneyInv`: the rows that a request or a payment left in the book (`Booked`): its debit once it is paid, the debit and its exact reverse once it is voided; so no command spends or gives back twice |
| `CommandProofs!SupplierAccountsHold` | `SupplierAccounts` | `DebtInv`: a document that is not completed has left no purchase, one that is not corrected no return (`ReceiptRight`, `PaymentRight`), so that every row of the ledger stands once and its balance is a sum over a set; nothing is paid beyond what is owed on a target without a return (`NotOverpaid`), which needs that `paid` and the standing payments agree when an allocation is judged |
| `BackOfficeProofs!RegisterRight`, `PromisedOnce` | `RegisterIsLedger`, `NoDoublePromise` | `CashInv`: what was applied is part of what is known, and no report on its way stands for more than the branch has by now, so that a late one is harmless |
| `BackOfficeProofs!Charged`, `DrawerOwned` | `ChargedOnce`, `ShiftOwnsDrawer` | `PayrollInv`: a case that a clerk has left for the payroll is still submitted and left by that clerk alone; who may move cash holds the register's lock |
| `BackOfficeProofs!LeaveCovered` | `UsedWithinQuota` | `LeaveInv`: what a canceller read never exceeded the quota, so that writing it back cannot pass it either; and the days of the approved leaves (`Fits`) are at most the days counted, until a return was written for a leave no longer approved or over a balance that had changed (`misgiven`) |
| `BackOfficeProofs!Reported` | `ReportsAgree` | `DayInv`, `AuditInv`: a day without a check-in is measured by no schedule |
| `BackOfficeProofs!CountedOnce` | `NothingTwice` | `StampInv`: a till's step gives and takes in one. `CartInv`: at most one bot checks a cart out (`OnePays`), no two bots work on one update (`UpdatesApart`), a line stems from the update that made it, and each finished addition went to one line, so that no line, nor what somebody read of one, exceeds what went to it (`Shared`) |
| `CounterProofs!TypeCorrect`, `Confirmed` | `ConfirmedIsProved` | `Proved`: a process that holds a real acceptance has been counted by the authority, and a row's real sign implies a document before it is confirmed |
| `CounterProofs!ReportedOnce` | `NoNeedlessDuplicate` | `OnceInv`: the documents held and those that attempts under way may still bring (`Owing`) exceed what was lost or overlapped by one at most, and by none unless an attempt is under way or the receipt is confirmed (`Tallied`). No assumption about who calls: callers and sweeps overlap as they like |
| `CounterProofs!SplitIsAsSettled` | `TenderRight` | `MoneyTyped`: evidence is part of what one till or the other wrote; then a case analysis over what may have arrived |
| `CounterProofs!DiscountsCounted` | `UsesAreCounted` | `DiscountInv`: an order's total is what its codes leave of its items, and the counter of a code that is not `outdated` the number of its uses; edits may hold any row they once read. The limits a new use respects and the fixed total of a paid order follow as facts of the step |
| `CounterProofs!ReturnedWithinPaid` | `RefundedOnce` | `RefundInv`: what was returned is the sum of what was returned of each tender, which is why a cancellation that takes what is left of each takes what is left of the order |
| `BranchProofs!ShiftsTyped`, `ConfirmedRests`, `BalancesAreTheBook` | `SettledIsEvidence`, `CreditedOnce` | `SettleInv`: an order is one row that keeps its shift (`RowsInv`), deposits are exactly those of confirmed shifts (`PostedInv`), and a confirmed shift's evidence, less the hub's later reversals, is its manifest (`KeptInv`) |
| `BranchProofs!CursorTrue` | `CursorIsApplied` | `ReplayInv`: what a pull of the current generation has walked over is applied or deferred, whatever older pulls do |
| `BranchProofs!LicenceKept` | `LicenceHolds` | `LicenceInv`: how far each cached copy and each request under way may be behind the row, in ticks |
| `StockProofs!RoomIsRight` | `RoomAccounts` | `RoomInv`: the rows of the movements tell what an order has taken (`OrderRight`) and a production holds (`MakingRight`), and what is reserved at each location is the sum over both (`Balanced`) |
| `StockProofs!TransfersAreRight` | `TransferAccounts` | `TransferInv`: a request at work saw a status its call allows (`SeenAllows`), and the movements of a transfer that nobody has overtaken are what its status says (`TransferRight`). For any number of requests at once |
| `StockProofs!RecipesStayOrdered` | `RecipesHold` | `RecipesInv`: the root of a version exists and has no root itself (`VersionInv`); the rows of a recipe have ids and numbers of their own, deleted ones included (`StepInv`), which is all that is true of the numbers, so that an addition shifts and a removal closes up without two rows meeting. An action property |
| `StockProofs!BatchesAccounted` | `BatchAccounts` | `BatchInv`: a receiving row and its correction tell all of their batch; batches are numbered as they come, so the order in which they are spent is total and a consumption that the level allows takes all it asked for (`AllTaken`); while goods are only traded, the batches that stayed make up level and value, and each step rounds once |
| `StockProofs!CatalogueLinked` | `CatalogueHolds` | `CatalogueInv`: every parent exists, so that a new row has no children, and a row that never existed is blank. A row moves only below one that is not below it: the set that shows this (`Below`) has no part in a cycle. An action property |

How the proofs are laid out: each module states the types and the parts of its
invariant, then the lemmas about operators (what a sum, a split, a renewal
returns), then frame lemmas for the steps that leave a part alone, then one step
for each action, and the theorem by the usual three facts. `SumProofs` holds what
they need of sums over finite sets (a sum does not depend on the order of its
choices, adding or removing an element, union, equality): an induction theorem
takes an operator as its parameter, which these provers cannot instantiate, so
its lemmas are proved from a least counterexample, strict inclusion being well
founded on the parts of a finite set.

What proving showed about the model and the code:

* `NoLostDeletion` was once stated without the exception of skipped tombstones,
  and three changes of a row could not refute it. The invariant was not
  inductive, and with five changes TLC shows why: a parent is created and its
  push begun, the queue cleared by the operator, a child created, sent alone and
  hard-deleted while the request with it stays at the hub after a crash; the
  tombstone is acknowledged though the hub never saw the child
  (`receiver.py:1527`), the parent arrives, and the late request stores the child
  live. The property now excludes that acknowledgement, by name.
* Three operators were written with a `CASE` whose guards overlap, of which TLA+
  says only that some branch is taken (`OrderMoney!Split`, `PullReplay!Resolved`,
  `Notifications!Targets`); TLC takes the first. They are `IF`s now.

Only model-checked:

* liveness: `Converges`, `IdentitiesMeet`, `ClaimsEnd`, `Settles` (twice),
  `CloseArrives`, `Drains`, `Recovers`. The prover treats neither fairness nor
  `ENABLED` here.

Every invariant and every action property of a passing run is a theorem.

## 5. Where the code falls short of its words

`feed_retry`, `double_tap` and `edited_order` are findings with a run of their
own. The others were met while modelling, and are listed for the owners of the
code. What a property does not say because of them is hidden in one of three
ways, and it is not always by name:

* *By name*, in the formula: a ghost variable marks the rows to which it
  happened, and the property promises nothing for them. `overtaken` (transfers),
  `misgiven` (leave), `outdated` (codes), `unsure` and `together` (receipts),
  `torn` (carts), erased rows and skipped tombstones (outbox), full queues
  (`KeptUntilDone`), orders that an edit reduced (`RoomAccounts`).
* *By an assumption or a constant*: `Prompt` and `CommitCrash = FALSE` in
  `idem_prompt` and `Dependable` in `LeasedOnce` rule out a slow worker and a
  death between commit and answer, so that nothing is said of either but for the
  atomic commands; `OneHandler` in the theorems of the feed and in `feed_pages`.
* *By a step that the code does in several*: `EndShift` reads and sums in one,
  so that a payment that commits late is not met; a call of the catalogue or of a
  recipe is one transaction, as at a terminal, so that the hub's concurrent moves
  are not met; the calls of orders, productions and counts over the stock levels
  are one step each. The cache's mark of an update the bot has seen does not
  expire here, though it does after an hour, and `ReportsAgree` says nothing of
  worked and early minutes, which are not modelled.

* **Outbox.** A hard-deleted row may return through a pull while its tombstone
  waits (`models.py:935`). Erased rows are excluded from `Converges`.
* **Identities.** A hub tombstone whose e-mail matches a live user the terminal
  made since re-keys and deletes that user (natural-key branch of
  `from_sync_dict`, `models.py` 871-931; the comment at 419 forbids only the
  opposite direction).
* **Idempotency.** Without `Prompt`, a retry takes over the claim of a worker
  that is only slow and the command runs twice (`idempotency.py:293`), unless its
  service knows the action. With `Recover` below `Ttl` a late refusal replaces a
  success (`idempotency.py:396`).
* **Cash.** An expense paid at the till while a command is deferred deducts the
  command and does not say so; it is deducted again. `cashbox/expense_service.py`
  178-230 ignores the status of the shift when it reverses a payment, so that
  evidence of a confirmed shift may gain a reversal (`receiver.py:517` refuses
  only other late rows).
* **Fiscal.** Two overlapping calls for one sale, the hook and one by hand,
  report it twice (`fiscalization_service.py:80`, `double_tap`), and a late
  refusal then replaces a confirmation. A sale whose payload cannot be built
  leaves no row for the sweep, though `builder.py:81` says the retry queue holds
  it; if its row exists, the exception leaves `retry_failed` (262-266), whose
  every pass ends at that row and starves what was saved after it.
* **Notifications.** `QueueService.add` may raise after Telegram accepted the
  message, and the creation is sent again, contrary to `queue_service.py:71`.
* **Stock.** A cancelled order is over-credited when an edit returned some of it
  (`order_service.py` 200-215, `edited_order`); at the hub two requests that
  both saw a transfer approved ship it twice (`transfer_service.py` 370, 522);
  cancelling a held or drafted production leaks its reservation;
  `quick_transfer` returns an error without undoing earlier steps (554-594); a
  cancelled transit does not restore its batch; the batch endpoints for
  consumption omit a required argument (`batch_views.py:74`, `:86`); a recipe's
  step other than the last cannot be removed (`steps.py:121`), a step added at
  any number or a reordering with gaps leaves holes among the numbers (33-73,
  127-143); a production copies deleted ingredients
  (`production_service.py:295`); two concurrent moves of categories may form a
  cycle, on which `_is_descendant` does not end; cascading a deactivation skips
  active descendants below an inactive child.
* **Purchasing.** Completing a drafted receiving of a cancelled order revives it;
  a cancelled order with debt cannot be paid.
* **HR, on the hub's Postgres.** `approve_all` writes without a lock over a PAID
  salary, which may be paid again; two cancels of a leave give its days back
  twice; a work schedule's patch closes the old row though the replacement is
  refused (`operational_audit_service.py` 192-227); the re-activation of a
  subcategory that keeps its parent may cross the parent's deactivation
  (`expense_category_service.py` 420-446).
* **Customers.** `checkout` reads the items and `cart_total` reads them again
  without a lock; a product added while a checkout runs goes into the closed
  cart; an update is acknowledged before it is handled and is lost in a crash.
* **Tenders.** A header repaired from some of the lines under much change stays
  as it is; switching an electronic method off makes earlier sales "unknown".
* **Discounts.** An edit of a code reads it without a lock and saves all of its
  columns, its counter with them (`discount_service.py` 221, 254): a use in
  between is lost to the counter, and the limit is passed by as much.

## 6. Not modelled

Registry fingerprints, scope epochs and authoritative pulls; ownership checks
and per-model repairs of the receiver, the natural keys of other models than
users; streaming answers and the expiry of idempotency keys; direct cash of HR
while a shift is open (refused by the code), collections of cash and order
payment (their code is in the editions); amounts and layout of fiscal payloads;
business days and reports; offline activation, signatures and the host-clock
anchor of licences; the wording of messages, menus, the login by phone;
treasury's plan of a collection, which has no caller here; costs of recipes,
bar codes, prices; edits of an expense's text; employees and documents, records
of one row at a time; realtime hints, which nothing waits for; authentication
and rate limits; language-model assistants; settings, migrations, repair
commands. Each part is listed with its reason in `PROJECT.json`.

## 7. Plan

No safety property of a run waits for its theorem. What would say most next:

* the pull of a row that was erased locally (`base/models.py:935`), the one
  hazard of the list without a property: the deletion has to outlive the row;
* the end of a shift in two steps, with a payment that commits between them
  (`core/shifts/service.py:1400`), the one race of the list that a step hides;
* `SyncOutbox` as an implementation of a register of rows that keeps the last
  edit, the way `Idempotency` stands under `OnceCommand`;
* the balances of leave and payroll over a month's end, and the repair commands
  as steps after which the invariants above have to hold again.

Liveness stays with TLC: the provers here have no `ENABLED`.
