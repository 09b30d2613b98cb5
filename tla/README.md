# Mahali: specifications, model checking and proofs

Mahali is a point of sale with its accounting: a Windows till (Qt 6, one SQLite
file) that sells, takes payments, keeps a cash drawer and a stock, and devices
that record sales off line and send them to the till over the local network.
The modules here are about what must not go wrong in it: an operation of a
device is booked exactly once; drawer, documents, shelf and reports tell the same
story; the file survives its upgrades; somebody can always log in; and the
yearly zakat is asked for until it is paid. This file lists the parts of the
system, says which module stands for which code, what is checked, what is
proved, and what is left.

Paths are relative to `src/`.

## 1. The system

One process owns the database through one connection. The desktop application
has one thread: pages, services and the HTTP server run on the same Qt event
loop, so a service call or a request runs to its end before the next begins.
Every operation of a service is one SQLite transaction (`foreign_keys` on,
`synchronous` FULL). Two things break the run-to-the-end rule:

* a modal dialog (`QDialog::exec`, `QMessageBox::question`) runs an event loop
  of its own, in which requests of devices are served;
* `SyncClient::sendBatch` waits for its reply in a `QEventLoop`, in which a timer
  or a click can start a second drain inside the first.

| Component | State | Operations | Talks to | What makes it correct |
|---|---|---|---|---|
| Device ledger (`data/device_ledger_service.cpp`) | the device's own sales, debts, payments, stock | record a sale, a debt, a payment | outbox and sequence, in its transaction | the operation and its outbox row commit together |
| Outbox, sequence (`data/sync_outbox_repository.cpp`, `data/sync_sequence_repository.cpp`) | rows with a status, the last opId | enqueue, oldest pending, mark, prune | coordinator | a row leaves only after the server has it; an opId is given once |
| Coordinator, client (`network/sync_coordinator.cpp`, `network/sync_client.cpp`) | nothing but stack frames | `drainOnce`: send the oldest rows, write the verdicts | server, over HTTP | a verdict is written only on the server's word |
| Server, processor (`network/sync_server.cpp`, `network/sync_processor.cpp`) | `applied_ops`, the exactly-once journal | check the signature, replay, defer, book or refuse | sale and payment services | one ledger row per operation |
| Scheduler (`network/sync_scheduler.cpp`) | timer, interval, failure count | start, stop, sync now, back off | coordinator | the loop never stops by itself |
| Server controller (`ui/server_controller.cpp`) | the running server, the key | start, stop, retention | server, journal | what retention drops can come only from a device that was away as long |
| Cash sessions (`data/cash_session_repository.cpp`, `ui/cash_session_page.cpp`, `data/cash_drawer.cpp`) | days, their float and settlement, movements | open, close, audit | every service that moves cash | one open day; a settled day stays settled |
| Sales (`data/sale_service.cpp`, `data/sale_rules.h`) | sales, their lines, receipts | cash sale, credit sale, and their reversals | drawer, stock, journal | a reversal is written once and mirrors its original |
| Payments (`data/payment_service.cpp`) | customer payments | record, refund | drawer, journal | as for sales |
| Expenses, drawings (`data/cash_entry_service.cpp`) | both tables | record, reverse | drawer | as for sales |
| Customers (`data/customer_repository.cpp`, `ui/dialogs/customer_dialog.cpp`) | customers; the balance is a sum | edit, settle, delete | payments | a debt is not lost with its customer |
| Products, stock (`data/product_repository.cpp`, `data/stock_movement_repository.cpp`) | quantity, average cost | movements through a trigger | sales, purchases | quantity is the sum of the movements |
| Register page, sale rules, receipts (`ui/pos_page.cpp`, `data/sale_rules.h`, `data/receipt_number_service.cpp`) | the invoice on the screen, a counter per year | scan, weigh, edit lines, adjust, sell to the till or on account | products, sale service | what is recorded is what the screen showed |
| Purchases, suppliers (`data/purchase_service.cpp`, `data/supplier_payment_service.cpp`, `data/supplier_return_service.cpp`) | invoices, payments, returns | record, void, pay, reverse, return | drawer, stock, average cost | balance is invoices less payments less returns; goods go back once |
| Reports (`data/report_service.cpp`, `data/daily_report_service.cpp`, `data/supplier_report_service.cpp`) | none | sums over the rows | everything above | a sale that was undone is nowhere in them |
| Database (`data/database.cpp`, `data/schema_migrations.cpp`) | the file: tables, columns, indexes, trigger, version | open: create, upgrade, migrate, stamp | everything | an upgrade is done once, whatever interrupts it |
| Users, login gate (`data/user_repository.cpp`, `data/admin_secrets_repository.cpp`, `ui/login_dialog.cpp`, `ui/users_page.cpp`) | users, PINs, recovery words, the session | log in, switch, make, edit, remove, switch off | main window | the shop is never shut out |
| Zakat (`core/zakat_notifier.cpp`, `ui/dialogs/zakat_dialog.cpp`) | settings and a history by year | remind, calculate, pay | reports, settings | it is asked for until the year is paid |
| Occasions, audit log, settings, updates, printing, formats, other pages | see `PROJECT.json` | | | |

The synchronisation classes of the device side are complete and tested, but no
application constructs them yet: the desktop application starts the server, and
the Android one is a shell. They are modelled as the tests and
`docs/SYNC_PROTOCOL.md` put them together.

### What is hard to test here

* **Lost answers and repeated requests.** A batch is booked, its answer is lost,
  the device sends it again, perhaps while the server still works on the first.
* **Power cuts** between any two transactions, on either machine.
* **Drains inside drains.** The older drain resumes last and writes verdicts it
  took from an older answer.
* **A batch of a bounded size from the head of a queue** whose head may have to
  wait.
* **Retention by age** in a protocol whose retries have no age limit.
* **Stale reads across a dialog**, while devices change what was read.
* **Long sequences**: sell, refund on another day, delete the customer, close;
  each correction once, each movement in the right day; buy, sell, void, pay and
  reverse on the side of the suppliers.
* **Copies on the screen**: the price of a cart line, the product on the scale,
  the adjustment and the customer of an invoice, a zakat dialog left open over
  the new year, the profiles of a login gate.
* **Work of several statements with no transaction around it**: the upgrade of a
  file, the making of a user, the payment of the zakat.

`PROJECT.json` lists each of these at its line with the properties that cover
it, and the ones no property covers yet with the reason.

## 2. Modules

| Module | What it is |
|---|---|
| `ExactlyOnce` | the promise: a recorded operation enters the ledger once, and once more for each time the server forgot it; "applied" is only said of a booked one |
| `MahaliSync` | devices, network and server |
| `SyncScheduler` | the device's own loop: timer, back-off, drains inside drains |
| `ShopLedger` | the till's books: days, documents, movements, shelf, customers, dialogs |
| `Till` | the register: the invoice on the screen and the sale written from it |
| `Reports` | extends `Till`: what the reports make of its rows |
| `Purchases` | suppliers, invoices, payments, returns, average cost |
| `SchemaUpgrade` | opening and upgrading the file, statement by statement |
| `Access` | users, the login gate, the page of users |
| `Zakat` | the reminder, its dialog and the payment |
| `MahaliSyncProofs`, `SyncSchedulerProofs`, `ShopLedgerProofs`, `PurchasesProofs`, `SchemaUpgradeProofs` | theorems about the module they name |
| `DesktopProofs` | theorems about `Access` and `Zakat`, what a start of the desktop program goes through |
| `TillProofs` | theorems about `Till` and `Reports` |
| `SumTheorems` | sums over the rows of a table, for the proofs about the books |
| `MCSync`, `MCScheduler`, `MCShop`, `MCTill`, `MCPurchases`, `MCSchema`, `MCAccess`, `MCZakat` | arguments of the TLC configurations (`MCTill` extends `Reports`) |

A definition that begins with `\* Bug:` (or `\* Bugs:`) is not part of the
specification: it is an operation as a plausible mistake would have it, kept to
show that some property notices the mistake.

In all of them a call that is refused or rolled back changes nothing and is a
stuttering step.

### MahaliSync

| State | Code |
|---|---|
| `till`, `seq`, `kind`, `status` | the device's open session, `sync_sequence.value`, the outbox rows' type and status ("none" before, "deleted" after) |
| `calls` | the `drainOnce` frames on a device's stack, outermost first, and how far each has come |
| `wire`, `job` | requests sent and not read; the request the server is working on |
| `session`, `stock`, `ledger`, `journal` | the server's open session, shelf, rows booked for devices, and `applied_ops` |
| `forgotten` | history: how often retention dropped the journal row of an operation the server could meet again |

Each of `RecordSale`, `RecordCustomerDebt` and `RecordCustomerPayment` is the
whole call of `DeviceLedgerService`: its guards, the ledger rows, `mintAndEnqueue`.
`DrainBegin` is `drainOnce` up to the wait; `Respond`, `RefuseBatch` and `GiveUp` are
the three ways the wait ends; `Reconcile` is one turn of the loop that writes
verdicts, since each is an autocommitted UPDATE and a power cut can fall between
two. A device does something else only where its innermost frame runs the event
loop (`InEventLoop`). On the server `Accept` is the signature check, `Replay`,
`Defer`, `Book` and `Refuse` are the four outcomes of an operation, one
transaction each; only a power cut comes between them, since there is one thread.

A frame that stops waiting leaves its request on its way without an owner
(`level = 0`): the server may still read and book it. Many copies of an orphan
are one element of `wire`, and `After` says that taking one may leave another.

`PruneJournal` is the retention of the server controller: age is all it asks, so it
may drop any row. Whether the operation can still come (`MayArrive`) decides only
whether the step counts in `forgotten`, which `MaxForgotten` bounds. Nothing ends
the wait for a peer that is gone, since `sendBatch` sets no timeout: `GiveUp` may
happen, and no fairness says that it does.

Left out: the attempts counter; rows the device cannot decode (which
`findPending` gives up on the spot), malformed JSON, the product listing of the
server, prices and totals, more than one piece per operation. `MoveStock` stands
for everything else that changes the server's shelf.

### SyncScheduler

`MahaliSync` lets a drain begin whenever the event loop runs. `SyncScheduler` is
about why one does. `timer`, `interval`, `base` and `max` are the members of the
class; `drains` is the stack of `drainOnce` frames, each with its batch and the
reply it waits for; `pending` is the outbox. `SetBaseInterval`, `SetMaxInterval`,
`Start`, `Stop` and `SyncNow` are the owner's calls, which may come in any event
loop, `Tick` is the timer, `Begin` is `runDrain` up to the wait and `Return` the
rest of it, once the innermost reply is there. `Answer`, `Break` and `Hang` are
what may become of a request. `wanted` and `asked` are history: the owner's last
word, and how often something outside armed the timer, or drained, since the
outermost drain began. What a batch does on the server is left to `MahaliSync`: a
reply gives some of its rows a verdict. Time is left out, and so is the overflow
of `m_currentInterval * 2`, which an interval beyond 12 days would need.

### ShopLedger

| State | Code |
|---|---|
| `sessions`, `expected` | `cash_sessions` and what each closed day was expected to hold |
| `docs`, `lastId` | rows of sales, credit sales, payments, expenses and drawings, `of` being the row a correction cancels; the AUTOINCREMENT counter |
| `moves` | `cash_movements` |
| `shelf`, `customers` | `products.quantity`; the customers on file |
| `dialog` | the modal dialog the operator has open, and the balance it read |

One action per operation: `OpenSession`, `CloseSession`, `RecordSale`,
`RecordDebt`, `RecordPayment`, `RecordExpense`, `RecordDrawing`, `ReverseSale`,
`CancelDebt`, `RefundPayment`, `ReverseExpense`, `ReverseDrawing`, `AddCustomer`,
and the two dialogs in two steps each (`AskDelete`/`ConfirmDelete`,
`AskSettle`/`ConfirmSettle`). What the desk does waits for its dialog to close;
`Record` may come from a device and does not wait.

Abstractions: all tables share one numbering (a renaming of the `(ref_type,
ref_id)` pairs); one product, and one line of one piece per sale (`Till` has the
lines); the counted amount and the variance follow from `expected` and are left
out; every customer has the same opening balance, and one who is created again
takes the place of one who was deleted; a debt's adjustment may make its total
negative, as the code allows, while a cash sale of nothing is refused by the
drawer. Movements of a deleted customer's payments stay, naming rows that are
gone, as in the code: `MoneyFollowsDocuments` speaks of documents on file. The
sales audit concerns a sale when the session has a movement of it; the code also
takes sales by their time, which for sales recorded while the session is open is
the same set.

### Till and Reports

| State | Code |
|---|---|
| `file`, `gone`, `price`, `pack`, `shelf` | rows of `products`; the ids of removed ones, which are not given again |
| `counted` | the stock movements of a product that no sale made |
| `cart`, `adjustment`, `account`, `weighing` | the page's lines, the adjustment field (`{}` when it holds no number), the customer of credit mode, the product on the scale |
| `sales`, `drawer`, `counter` | `sales` and `customer_transactions` with their lines and receipts, the cash they moved, `receipt_sequences` |
| `year` | what the clock says |
| `entered`, `steps` | history: what was entered since the last recorded sale; the bound |

The page keeps copies and `SaleService` reads the product again: that is what the
module is about. `Scan`, `QuickClick`, `SubmitWeight`, `NewProduct`, `RemoveLine`,
`ClearCart`, `SetQuantity`, `TypePrice`, `ChangeUnit`, `TypeAdjustment`,
`EnterCreditMode` and `ClearCreditMode` (the × of the credit bar) are the page's handlers; `CompleteSale` is the button with the
whole transaction behind it; `ReverseSale` the refund of the day or the
cancelling of a debt; `EditProduct`, `EditPriceCell`, `EditQuantityCell`,
`RemoveProduct` what other pages do meanwhile; `TurnYear` the clock, which may also
go back. `UnitPrice`, `Pieces`, `Cents`, `InStock` are those of `sale_rules.h`; stock
is checked line by line as there, so the shelf can go below zero.

`Reports` has no state. `Revenue`, `Cogs`, `SalesCount`, `OutstandingDebt` are
`ReportService::build`; `DailyTakings`, `DailyCogs`, `BestSellers`, `NewDebts` the
part of `DailyReportService::forDay` that reads these rows. The window of time is
the whole run.

Left out: printing, the search pop-up, the order of the quick cards, batches of
the stock page, the open cash session (`ShopLedger` has it), arithmetic near 64
bits.

### Purchases

| State | Code |
|---|---|
| `suppliers`, `opening` | the suppliers on file and their opening balances |
| `invoices`, `payments`, `returns` | `purchases` with their one line, `supplier_payments`, `supplier_returns`; `voids` and `reverses` are the `reversed_id` columns |
| `stock`, `shelf`, `cost` | `stock_movements` in order, quantity and average cost of the product |
| `drawer` | the cash movements these services write |

`RecordPurchase`, `VoidPurchase`, `RecordPayment`, `ReversePayment`, `LinkedReturn`,
`GeneralReturn`, `SaveCard`, `DeleteSupplier` are the services with what their forms
check first; `SellPiece` stands for whatever else takes goods from the shelf.
`Found` is what a void reads of the row `PurchaseRepository::findById` answers: its
query selects neither `reversed_id` nor the method, so each guard that reads them
reads a default, and the model keeps that. `Summary` and `GrandTotalOwed` are
`SupplierReportService`'s. Bank and credit are one method, `account`, since neither
reaches the drawer. With no session open a cash row is refused.

### SchemaUpgrade

| State | Code |
|---|---|
| `version`, `tables`, `columns`, `indexes`, `stockTrigger`, `blankRefused` | the schema of the file |
| `ledger`, `counters`, `payments`, `products`, `settings`, `zakat`, `sessions` | the rows an upgrade reads or writes |
| `phase`, `todo`, `perYear` | the opening: statements still to execute, and the counts kept in memory |
| `found`, `cuts`, `torn` | history: the file found, the power cuts, what one left half done |

`Opening` is the constructor of `Database` as a sequence of statements and
`MigrationOf` the table `kMigrations`; each action executes the statement at the
head of `todo`, and `PowerCut` throws the rest away. Which statements there are is
decided when the code decides it: `StartMigrations` reads the version and lists the
later ones (`WorkAfter`), `ApplyMigration` puts the statements of the next one in its
place, `AddMarker` marks only when it added the column, `StartNumbering` looks for a
counter first, `SwapProducts` is one transaction. `AssignNumber` is the loop over the
rows without a number (`Unnumbered`), one row a step, and `SeedCounter` the loop over
the years. `DatabasesAssumption` says what files there are: what a release had written
when it had stamped its version, which is what `StampedAfterwards`, `DefaultsBefore`
and `NumbersIssued` read off the migrations. `Sell`, `OpenSession` and
`CloseSession` are the program running on what the upgrade left. One column stands
for several that one loop adds alike; the device's smaller schema and indexes
that only make reports faster are left out; the only statements that fail are the
unique indexes the code expects to be refused.

### Access

| State | Code |
|---|---|
| `onFile`, `role`, `pin`, `active`, `word`, `nextId` | `users` and `admin_secrets` |
| `gate`, `listed`, `chosen`, `clicks` | the login dialog: its state, its profiles, the selected one, clicks on its heading |
| `session`, `window`, `page` | `Session`'s copy of the user, the main window and its page |
| `halfMade` | history: users whose PIN was never written |

Each handler of the login dialog and of the page of users is an action. The
making of a user takes the number of statements that were `done`, each
autocommitted. Hashes are equality; names are left out.

### Zakat

`today` and `date` are days of a year (a leap day included), `notified`,
`paidYear` and `nisab` the settings, `assessed` and `paid` the history, `dialog` the
modal dialog with what its labels hold, `checked` the flag that asks once per start.
`MarkPaid(done, failed)` is the handler of the button after `done` of its seven
statements, of which those in `failed` wrote nothing: the handler looks at no
result, so the rest run all the same. `PayZakat` is all of them, whatever fails,
`DieWhilePaying` fewer. Failures are told apart for the statements that write
something the model keeps (`Telling`). `unrecorded` is history: the years whose row
of the history failed to be written. `Trade` changes the
base, which is a number here.

## 3. Runs

| Run | Checks | Bounds |
|---|---|---|
| `sync_safety` | `TypeOK`, `NothingLost`, `ImplementsExactlyOnce`, `EverythingSettles` | one device, two operations, batches of one, one drain at a time, an operation forgotten once, one piece on the device's shelf and one at the server |
| `sync_nested` | `OnceUnlessForgotten`, `AppliedIsOnServer`, `WrongKeyKeepsAll`, `NeverRequeued`, `VerdictsStand` | two devices, one with the wrong key, one payment each, two nested drains on each, forgotten up to twice, transactions that fail |
| `sync_retention` | `AtMostOnce` is violated | one operation, forgotten once |
| `sched_loop` | `LoopAlive`, `DrainsAskedFor`, `CatchesUpIfAnswered`, `BacksOff` | two rows, batches of one, three nested drains, intervals 1, 2 and 4, 0 among the arguments |
| `shop_safety` | `TypeOK`, `OneOpenSession`, `ClosedDayAddsUp`, `MoneyFollowsDocuments`, `ReversedOnce`, `NoGoodsFromNowhere`, `ClosedDaysFrozen` | two customers, four documents, two days, amounts 1 and 2, credit totals of either sign, two pieces |
| `shop_close` | `VoidedSalesBalance` is violated | three documents, one day |
| `purch_books` | `TypeOK`, `DrawerFollowsPayments`, `SummaryExplained`, `InvoiceNotOverpaid`, `GoodsVoidedOnce`, `CostStaysBetween` | two suppliers, five rows, lines of two pieces at 3, two pieces at 1 on the shelf |
| `purch_twice` | `PaymentReversedOnce` is violated | the same |
| `till_sales` | `TypeOK`, `ShelfFollowsSales`, `ReportNetsOut`, `ReceiptsRunOn`, `PricedScreenIsRecorded`, `NothingCarriedOver` | three products, one weighed and one new, two prices, two carton sizes, one customer, two years, six steps |
| `schema_open` | `TypeOK`, `SchemaComplete`, `UpgradedAsWritten`, `NumbersDiffer`, `NoSettingLost` | an empty file and files of versions 1, 10, 13, 14 and 16, two years, two power cuts, three rows of a ledger |
| `access_gate` | `WayIn` | three users, two PINs, one recovery word, a gesture of two clicks |
| `zakat_years` | `AskedWhileOwed`, `PaysTheYearAsked` | three years of four days, the second a leap year, a window of one day, two prices, two bases |

**Why these bounds.** Two operations and a batch of one make a queue: one row
waits behind another, and batches differ. Two nested drains are the smallest
number at which an older drain resumes with older news; the proofs cover any
number. `ImplementsExactlyOnce` says of two operations what `OnceUnlessForgotten` and
`AppliedIsOnServer` say. Nested drains have a run of their own with one operation
for a device, because what an older drain can spoil is the verdict of a row, and
verdicts are written row by row. That operation is a payment, which can be deferred, booked and refused like a
sale: a transaction that fails stands for a shelf that is empty. In `sync_safety`
`MoveStock` takes the one piece of the server and brings it back, so an operation
may be refused from one copy and booked from another. In `SyncScheduler`
`MaxNested` is `MaxAsked` + 1, so by `DrainsAskedFor` the bound on the nesting
never stops a step.

Four documents are two originals with their corrections, or three originals of
one customer with one correction, across a day that has been settled and another;
the second customer is one whose deletion must leave the first alone. Five rows
of purchases are two invoices of two suppliers with a first payment, a payment
and its reversal, or one invoice with its void and two tries at another. Their
quantity, price and cost are such that an average is rounded. Customers and
suppliers are symmetric: nothing in the code tells them apart.

Six steps at the register are the scan, an edit on another page, the sale, its
refund and two more, say an edit between and a second sale. The two prices and the two carton sizes are what a stale copy is told by; 1500 grams make
a product of weight and price that is divided. Of the releases, 1 is older than
every migration and the only one with the old products table, 10 than the marker
of payments, 13 than the trays, 14 than the receipts, 16 has nothing to upgrade; two
cuts let an upgrade that
was cut be cut again in its repetition. Three users are an administrator, another
and a third with the PIN of one of them. Three zakat years let a date be passed, a
calendar year end before the dialog is answered, and the next date come; four
days put a date before, on and after the leap day.

Deadlock is not checked where the bounds end the run (the books, the register, the
purchases). Everywhere else it is checked.

**Fairness.** `LiveSpec` assumes: a device with pending rows starts another drain
(the scheduler arms its timer after every drain); both machines run their own
loops to the end; the server reads the connections it holds (strong fairness,
because it reads one at a time and others may come in between). Nobody has to
sell, open a session or prune, and nothing ends a wait whose peer is gone.
`EverythingSettles` adds, as hypotheses, that from some moment nothing crashes or
is lost (`Calm`), that a session stays open, and that no drain waits for good with
no copy of its request left (`NeverHung`); without them the devices are right to
keep waiting, or do wait. The last is the weak point of the code (see section 4),
and `CatchesUpIfAnswered` has it as its hypothesis too. The fairness of
`SyncScheduler` is that of an event loop: an armed timer fires, a drain that has
its reply goes on, and a request that does not hang is answered or fails.

## 4. What the runs found

* **The close-of-day audit reports refunded sales** (`shop_close`). Its second
  check takes every row with `reversed_sale_id = 0` for a sale that stands, and
  that is true of every original, refunded or not. The third check looks at
  movements that name the refund row, and there are none.
* **A supplier payment can be reversed again and again** (`purch_twice`).
  `SupplierPaymentService` asks whether the row is a reversal, never whether it has
  one; the partial index its comment relies on is not among the migrations.
* **Retention by age can undo exactly-once** (`sync_retention`). A device that lost
  the answer and was away for longer than the retention sends the operation again,
  and it is booked again. The comment of `pruneOlderThan` takes for granted that the
  outbox is gone by then; nothing prunes a pending row. What does hold is
  `OnceUnlessForgotten`.

Met while modelling, and kept in the models as the code has them:

* *Nested drains overwrite each other's verdict.* The server refuses an operation for
  the older drain and books it for the younger; the younger marks its row applied, and
  the older then marks it permanently failed, which tells the owner of money the
  server has (`data/sync_outbox_repository.cpp:144` names the row by its id alone).
  What does hold is `VerdictsStand`: once no drain has the row left, what it says it
  says for good.
* *What remains to be paid ignores returns.* `docs/FINANCIAL_MODEL.md:44` takes them
  off; `SupplierPaymentService::recordPayment` caps a payment at the total less the
  payments, so an invoice whose goods went back can still be paid in full.
  `InvoiceNotOverpaid` is the weaker fact that holds.
* *The zakat reminder falls silent without a payment on record* when `insertOrIgnore`
  or `markPaid` fails: the handler ignores what they return and claims the year all
  the same (`ui/dialogs/zakat_dialog.cpp:296`). `AskedWhileOwed` excepts the years in
  `unrecorded`.
* *A full batch of deferred sales* hides a debt behind it, which needs no session.
* *A silent peer* that takes a request and never closes the connection stops the
  loop until `start` or `syncNow` is called.
* *A debt booked while the delete question is on screen* goes with its customer.
* *The form of a new customer* asks for the manager only after it has been closed,
  so the question about the opening balance has no effect
  (`ui/dialogs/customer_dialog.cpp:297`).
* *Voiding an invoice* returns its first payment as cash whatever its method, even
  if that payment was reversed before; a voided invoice stays in the list of
  unpaid ones; linked returns are capped by the invoice, not by what is left of it.
* *A credit sale that comes to nothing or less* cannot be cancelled, and the report
  counts it as minus one. `PeriodNetsOut` excepts it.
* *The daily report* multiplies the cost of a piece by the number of cartons
  (`data/daily_report_service.cpp:54`). `DayNetsOut` excepts cartons.
* *A line added while its product has no price* is shown at one price and recorded
  at another. `PricedScreenIsRecorded` excepts it.
* *A power cut within the receipt numbering or the marking of payments* is not made
  good by the next opening, and the version is stamped even when a migration
  failed. `UpgradedAsWritten` and `NumbersDiffer` except the cut.
* *A user whose making was cut short* is active without a PIN, and the gate then
  asks for one nobody has. `WayIn` excepts it.
* *The zakat verdict* stays on the screen when another price is typed, until it is
  calculated again. A zakat date in the last days of December is not announced in
  January.

## 5. Proofs

Everything in the eight proof modules is checked by TLAPS, for every value of the
constants that satisfies the assumption of the module: `SyncAssumption`,
`SchedulerAssumption`, `ShopAssumption`, `PurchasesAssumption`, `TillAssumption`
with `ReportsAssumption`, `AccessAssumption`, `ZakatAssumption`, or `BoundsAssumption`
with `DatabasesAssumption`. TLC evaluates the assumption in every run of its module.
They say what kind of number a constant is, that a bound is one, that there are
finitely many suppliers, whom a report adds up, that the shop has at least one price,
carton size and year to start with, and that a file which is opened is one a release
had finished with (nothing is assumed of which release, or of its rows).

**MahaliSyncProofs.** `AppliedIsOnServer` is not inductive: whether a row may be
marked applied depends on what an ack under way says, and on which frame it will
reach. The inductive invariant `SyncInv` has these parts:

1. `TypeOK`;
2. `FramesWait`: a request with a level is the only one of its frame, and the
   frame waits for it, so an answer never reaches a frame it was not meant for;
3. `Committed`: only operations whose transaction committed are in an outbox, in
   a drain, in a request or in the ledger;
4. `AcksTrue`: every applied ack, in the journal, in the job or in a frame, is
   of a booked operation;
5. `AppliedIsOnServer` itself.

`TypeCorrect`, `SyncInvCorrect`, `AppliedCorrect`, `NothingLostCorrect` and
`NeverRequeuedCorrect` follow. None of the theorems assumes anything of retention
or of how deeply drains nest. `JournalGuards` says that an operation the server may
meet again, and that its journal does not know, has no more rows than times it was
forgotten; with it and `SyncInv`, `OnceUnlessForgotten` is inductive (`OnceInv`,
`OnceUnlessForgottenCorrect`). A prune that matters adds to `forgotten` what it takes
from the journal; one that does not matter drops an operation that cannot come back
(`NoNewArrivals`). `Refinement` shows that each step is a step of `ExactlyOnce` or
changes nothing there: `Record` maps to `Record`, `Book` to `Book`, a `PruneJournal`
that counts to `Forget`, a `Reconcile` that changes a verdict to `Settle`, the rest
to stuttering.

`WrongKeyCorrect` has an invariant of its own, `NothingHeard`: the server works only
for devices whose signature it knows, and no frame of another device holds an ack.
`VerdictsStandCorrect` needs no more than `SyncInv`: a row that has its verdict and is
in no drain stays out, because a step may only add pending rows to a drain
(`TodoStep`), and only a drain that holds a row writes on it (`StandsStep`).

**SyncSchedulerProofs.** `TypeCorrect` is the type invariant, which no run repeats.
`LoopAlive` and `DrainsAskedFor` are each inductive
relative to `TypeOK`. The second counts an armed timer as a drain to come: a
drain that returns turns itself into an armed timer, a tick turns it back, and
only a call from outside adds one.

**ShopLedgerProofs.** The actions write to the books in only four ways
(`EveryWay`): a new document with or without its movement, a mirror with or
without its own, the removal of a customer's rows, or nothing; and to the days
in three: a day opens, a day closes, or none does. The invariant `BooksInv` is
`BooksTyped`, `ReversedOnce`, `CorrectionsNegative` (a correction has a negative
amount, so it cannot be corrected in its turn even where the code has no other
guard) and `MoneyFollowsDocuments`. From it follow `BooksTypedCorrect`,
`ReversedOnceCorrect`, `MoneyCorrect` and `GoodsCorrect`; `OneOpenCorrect` and
`ClosedDaysCorrect` need only the types. Deleting a customer keeps
`ReversedOnce` because a mirror names the same customer as its original.
`TypeCorrect` adds to the types that what is kept of sums (`expected`, the balance in
a dialog) is whole cents. `ClosedDayCorrect` holds because a movement needs an open
day: closing writes the sum of the day's movements, and after that neither the
movements of the day nor its float change, so the sum over them does not.

**DesktopProofs.** `WayIn` is not inductive: nothing in it says why a user the gate
can list should have a PIN. `AccessInv` adds to `TypeOK` that a user on file without one
is in `halfMade`, and that a gate which asks for a PIN lists exactly the active
users, of whom there is one (the gate is modal, so they do not change). Then the
PIN of a listed user finds a user who can enter, if not that one
(`WayInCorrect`).

The invariant of the reminder, `ZakatInv`, adds to its types that a year which was
claimed, so that its reminder is silent, is paid in the history, or its row there
failed to be written (`unrecorded`), whatever statement the program died after and
whichever failed, and that the zakat year of an open dialog is still the one it came up for.
From the first follows `AskedWhileOwedCorrect`, from the second
`PaysTheYearAskedCorrect`.

**SumTheorems.** The models add up with the community operators `SumFunctionOnSet`
and `SumFunction`, folds that take the elements in an order nobody knows. A fold is
a CHOOSE of a recursive function, so the module first shows that the function
exists for a finite set (`TotalsExist`) and unfolds it (`TotalsUnfold`). The provers
cannot instantiate an induction rule whose parameter is an operator; what is used
instead is a smallest counterexample: the set of the parts of S that are bad, if it is
not empty, has a member of the smallest cardinality (`WFMin` over the naturals), and
`StrongSubsetInduction` and `SubsetInduction` state this for a set G of good parts.
The rest follows: the order is of no account (`SumRemove`), a new row adds its amount
(`SumGrow`), a changed row the difference (`SumChange`), groups add up to the whole
(`SumGroups`, of one table by the column of another), a renumbering changes nothing
(`SumRenamed`), and rows that come in opposite pairs may be left out (`SumCancels`).

**PurchasesProofs.** The actions write rows of few forms: at most one invoice
(`InvoiceWritten`), at most one payment together with its cash movement
(`PaymentWritten`), goods with the invoice that brings or voids them or none
(`GoodsWritten`). `BooksInv` is what they keep together: `TypeOK`; `PricesAsked` and
`ReturnsGiven` (no price is nothing, no credit negative); `PaymentsLinked` (a payment
that is no reversal is positive, and names an invoice of its own supplier);
`MovementsLinked` (stocked goods came in by a movement, and the void of an invoice is
later than it); and the three properties. `InvoiceNotOverpaid` needs the links: a
payment is accepted against what remains, and a reversal subtracts. `GoodsVoidedOnce`
does not rest on the guard of `voidPurchase`, which reads a column it did not select,
but on `GoodsUntouched`: after a void the newest movement of the goods is the void,
so `MovementsLinked` says that their own is not. `CostCorrect` is an inequality of
integer division (a weighted mean rounded down, or half up, stays between its two
ends) and needs only the types. `ReportCorrect` takes the summary apart: invoices,
payments and returns are grouped by supplier and by invoice, so that what differs
between the balance and the open amounts is what the property names.

**TillProofs.** A step writes the row of a sale (`Sells`), the row that undoes one
(`Undoes`), or nothing in the books (`EveryStep`). `BooksSound` is the inductive
invariant of the rows: `TypeOK`; `SalesAsWritten` (a sale is what it was when it was
written: its total is that of its lines and its adjustment, its quantities positive);
`MirrorsUndo` (a row that reverses one is its opposite, line by line);
`UndoneOnce`; `NamedOnFile` (a product a row names is not removed). On it rest

* `ShelfCorrect`: the pieces a mirror brings back are those its sale took, because
  they are copied from the row and not worked out from the carton of the day. The
  invariant says it of products that are not on file too, since a new product takes
  the shelf it is given;
* `ReceiptsCorrect`: the counter of a year is the number of its receipts, from `TypeOK`
  and the property alone;
* `ScreenCorrect`: a screen all of whose lines have a price shows the total that
  `CompleteSale` works out again;
* `CarryCorrect`, with `EnteredHere`: a field nobody has touched since the last sale is
  empty;
* `ReportCorrect`: a row that does not stand has a twin, its mirror or its original,
  with the opposite amount in every column a report adds up (`RowsCancel`, and
  `LinesCancel` for the lines), so by `SumCancels` the sums over all rows are those
  over the sales that stand. `TakingsHold` says that the drawer holds the takings.

**SchemaUpgradeProofs.** Every state in the midst of an opening is one its remaining
statements have to make good, so the invariant is about both: `UpgradeInv` says what
the file may still lack, and that the program that is left brings it. Its parts are

1. `Types`, and `Program`: the statements are of the kinds there are (`Stmts`); those of
   a version are there only in a file that is older (`Newer`); `<<"migrate">>` or
   `<<"stamp">>` is the last one (`Ends`), and the order of what is left is right where
   it matters (`NumberingOnce`, `TraysFirst`, `MarkFirst`). A statement may put others
   in its place if they fit (`Pushed`, `PushProgram`), which is shown once for each
   version (`MigrationProperties`) and for the numbering;
2. `Shape`: a table, a column or the trigger that is missing is made by a statement
   that is left, or by a version that is (`ColumnComes`), and the version of the file
   stands for work that is done (`FileKeeps`). When the stamp is at hand nothing can be
   left, so a running program has all of it (`SchemaCompleteCorrect`). The swap of the
   products table forgets the column of the cartons, which is why the old declaration
   of the bar code must not outlive version 13;
3. `FoldFirst`: as long as a setting may be in the old table only, the copy is the next
   statement that has to do with it (`NoSettingLostCorrect`);
4. `Numbers`: a counter or a count knows every number issued (`NumbersKnown`), and while
   rows are counted no year has a counter (`CountsAhead`), so the next number is new
   (`NumbersDifferCorrect`); `CountsFit` bounds them for `UpgradeTypeCorrect`;
5. `OldRows`, `PiecesDone`, `MarksDone`, `CartonsDone`, `Papers`: an old row has what
   the upgrade gives it, or what it was found with while the statement that will write
   it is `Ahead`. That a backfill which is repeated writes nothing twice is the first
   alternative of each; that nothing is skipped, the second. The number of a row is the
   count so far, and this is its place among the papers because the rows of a ledger
   are numbered from the first on (`NumberedFirst`) and all sales before all credit
   (`NextPlace`). `UpgradedAsWrittenCorrect` follows because nothing is `Ahead` of a
   running program.

**Only model-checked.** Liveness (`EverythingSettles`, `CatchesUpIfAnswered`,
`BacksOff`), since TLAPS has no rule for it here. The three violations are
counterexamples and need no proof.

## 6. Plan

Every module of the plan is written, and every safety and action property of the
passing runs is a theorem. What is worth doing next:

1. **SyncScheduler**: a theorem that its drains are those of `MahaliSync`, a step of the
   one a step of the other with the server left out, so that what is proved of the two
   modules is of one loop.
2. **ShopLedger** and **Till**: that a sale of `Till` with its drawer is a document with its
   movement in `ShopLedger`, as an implementation of the one by the other.

### Not modelled

* **Operation codec, formats, barcodes, translations**: conversions without state,
  reached by unit tests.
* **Arithmetic near 64 bits**: the models have unbounded integers; the code refuses
  such amounts before it writes, except in the average cost.
* **Restore of an older device database**: not a step of the program.
* **The listening socket of the server controller**: Qt's.
* **Occasions**: services and a label are there, but the page is a stub that puts no
  occasion on file and activates none, so no running program has one.
* **Audit log**: a row inside each transaction; its failure is a rollback.
* **Updates**: a download and a script that unpacks it; what matters in it is what
  the network and Windows do with a half-written archive.
* **The supplier's period report, the windows of time of the others, search
  pop-ups, editing cards, switching a product or a customer off.**
* **Printing, layout, wording; the Android shell**, which calls none of the
  synchronisation classes yet.
