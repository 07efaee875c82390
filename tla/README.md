# DinarLedger in TLA+

A verification development of DinarLedger, a subscription billing engine in Python:
plans and subscriptions, invoices, payments and credit notes, revenue recognition,
FX, reports, four kinds of jobs and three storage backends.  The modules here are
written from the source under `src/src/dinarledger`; `PROJECT.json` maps every
definition to the lines it models.

## 1. The system

### Components, their state and their operations

| component | state | operations | interacts with |
|---|---|---|---|
| billing service (`services/billing_service.py`, `billing/invoice_gen.py`) | none of its own: an invoice and a payment repository | `run_billing_cycle`, `process_payment`, `void_invoice`, `apply_credit_note` | calls `generate_invoice`, `allocate_payment`, `apply_adjustment`, and one repository call after the other |
| payment allocation (`payments/allocation.py`) | none | `allocate_payment`, `unallocated_amount` | called by the billing service and the CLI |
| repositories (`storage/memory.py`, `json_store.py`, `sqlite_store.py`) | a dict behind a lock; a lazily loaded dict, a file and its backups; a connection per thread and a transaction flag | `get`, `get_all`, `find`, `add`, `update`, `delete`; `flush`, `reload`; `begin`, `commit`, `rollback` | called by the services and by units of work; JSON files are shared between processes |
| unit of work (`storage/unit_of_work.py`) | snapshots, `_committed`, `_rolled_back` | `__enter__`, `commit`, `rollback`, `__exit__` | snapshots and restores stores, begins and ends SQLite transactions |
| migrations (`storage/migrations`) | the table `_migrations` | `run_migrations` | the SQLite file, whose tables the repositories create, too |
| scheduler (`jobs/scheduler.py`) | the dict of jobs, each with its `last_run` | `register`, `cancel`, `tick` | calls job functions, which may call the scheduler |
| jobs (`jobs/*_job.py`) | the lists given to `configure`, the latest FX rates | `run`, `__call__`, `configure` | called by a tick |
| customer service, subscriptions (`services/customer_service.py`, `subscriptions/`) | customer and subscription repositories, a counter of ids | `onboard_customer`, `change_plan`, `manage_seats`, `check_credit`; `subscribe`, `activate`, `cancel_subscription`, `reactivate` | proration, repositories |
| plans and periods (`plans/proration.py`, `core/period.py`) | none | proration, billing periods, stub periods | subscriptions, revenue |
| revenue (`revenue/`, `services/revenue_service.py`) | none | allocation of a transaction price, recognition per period, deferred schedules | jobs, reports |
| reconciliation (`payments/reconciliation.py`) | none | `reconcile` | CLI |
| credit and ledger (`customers/`) | none | credit checks, limits, balances, aging buckets | customer and report services |
| FX (`fx/`, `services/fx_service.py`) | a dict of rates | `update_rates`, `convert_amount`, revaluation | FX job |
| tax (`tax/`) | none | `calculate_tax`, `apply_exemption`, `tax_summary` | lines of invoices from `generate_invoice` |
| reports, validation, utilities, serializers, CLI | CLI: process-wide dicts | pure functions; commands | all of the above |

### What is hard

* **No operation is atomic.**  Every service method is a sequence of repository calls
  and each of these holds the repository's lock only for itself, so two calls of the
  billing service interleave, and what is written back may be a stale copy.
* **Methods stop half-way.**  Amounts in two currencies raise wherever they are
  compared or added; nothing is undone.
* **Lazy loading without a lock on the fast path**, `flush` without any lock, and
  `reload` make a JSON repository visible in states its methods do not expect.
* **Crashes and failing writes** during a rotation of backups, a save, a commit, a
  rollback.
* **Units of work over repositories of different kinds**, one with real transactions,
  one restored from a copy, one restored from a copy and saved again.
* **A registry iterated while its jobs change it.**  `tick` walks the live dict, and a
  job function may register and cancel jobs.
* **Tables with two creators.**  A repository that is opened and a migration create the
  same table with different keys and references; what holds depends on who came first.
* **Chains of rounded and clamped values**: proration, months of different lengths,
  allocation by ratio, inverse and cross rates, two roundings of taxes.
* **Two computations of one thing**: deferred revenue by the job, by the obligations and by
  the schedule; what is late by the job and by the report; what a query finds in memory
  and in a database.

### What makes each component correct

* Billing: a status is backed by a payment that was stored before it; a PAID invoice
  was covered; balances are what was charged less what was credited; a payment gives
  no more than it has; PAID and VOIDED are final; all of this up to lost updates, which
  the code allows and the properties name.
* JSON repository: memory and file agree whenever nobody holds the lock, a save
  removes nothing but what was deleted, the previous file can always be recovered,
  backups are the history of the file, locks are given back.
* Unit of work: an exception restores everything, a normal end makes everything
  durable, no transaction or lock is left behind; when something fails, what others see
  is whole repositories in the order of the unit.
* Scheduler: a tick runs what is due, in order, once, and an interval apart; a job that
  fails stays due.
* Subscriptions: seats stay positive, CANCELLED is left only for a day within the window of
  a cancellation, charges and credits add up to the days used.
* Repositories: a key finds one entity, references hold, what was acknowledged is there;
  the same query finds the same entities in every kind of repository.
* Migrations: a recorded version has its tables, in order, also after a crash, and is
  reported once.
* Periods: a chain of billing periods skips and repeats no month and loses no day but to a
  month that does not have it; a day splits a period into parts of the whole.
* Revenue: what is recognised over all periods is what was allocated, up to rounding and
  stub months, and every account of what is still deferred agrees with it.
* Reconciliation: a matching of near pairs that leaves no near pair over.
* Receivables: job and report agree on what is late, report, ledger and credit check on how much.
* FX: converting there and back, or over a third currency, comes to about the same.
* Tax: the taxes on an invoice are those of its charges.

## 2. The modules

| module | models | state ~ code |
|---|---|---|
| `PaymentAllocation` | `payments/allocation.py` | pure: `Share`, `Remaining` and `Allocations` are the loop of `allocate_payment`; `SortOrders` is Python's stable sort |
| `Billing` | the billing service over two memory repositories | `invoices`, `payments`: the repositories; the rest is what each thread holds inside a call |
| `JsonStore` | `storage/json_store.py` | `file`, `backup`, `flock`: the disk; `cache`, `lock`: an instance; `pc`, `op`, `raw`, `index`: a thread in a call |
| `UnitOfWork` | `storage/unit_of_work.py` and the transactions of `sqlite_store.py` | `store`, `disk`, `open`, `writer`: the repositories; `snapshots`, `committed`, `rolledBack`: the unit; `aliased`: stores that are the snapshot object itself |
| `Scheduler` | `jobs/scheduler.py` | `jobs`: the `ScheduledJob` objects; `entries`, `room`: the dict as CPython keeps it; `pos`, `left`, `used`: its iterator |
| `Subscriptions` | `subscriptions/lifecycle.py`, `subscriptions/seats.py`, `plans/proration.py`, plan and seat changes of the customer service, the CLI's commands | `subs`: the repository, or the dict of the CLI; `counter`: `_sub_counter`; `call`: the copy a caller has read and computed; `today`: `date.today()` |
| `Repositories` | the key and reference rules of `storage/memory.py` and `sqlite_store.py`, `onboard_customer`, `storage/migrations` | `rows`, `schema`: the tables, or the dicts; `count`: a caller inside `onboard_customer`; `applied`: `_migrations`; `pc`, `known`, `newly`, `statement`: a process inside `run_migrations` |
| `Versions` | nothing of the code: what migrations promise | `level`: the version of a database; `tables` |
| `Amounts`, `Calendar` | `core/money.py`, `utils/` and the arithmetic of dates | pure |
| `Periods` | `core/period.py` and the first period of `subscribe` | `start`: the last start of the chain `billing_periods` makes |
| `Revenue` | `revenue/`, `services/revenue_service.py`, `jobs/revenue_job.py` | `closed`: the periods a program has closed; `recognized`: what the job returned; `balance`: the schedule's |
| `Receivables` | the sum of `customers/credit.py`, `jobs/aging_job.py`, the aging report and buckets | `invoices`: the repository; `list`, `aged`: the job's configuration and its last run |
| `Reconciliation` | `payments/reconciliation.py` | `turn`, `matched`: the loop over payments |
| `Exchange` | `fx/rates.py`, `services/fx_service.py`, `jobs/fx_job.py` | `latest`: the job's rates; `rates`: the service's |
| `Taxes` | `tax/`, and the lines of `billing/invoice_gen.py` | `lines`: an invoice's lines |
| `Queries` | `find` and `find_with_conditions` of the memory and the SQLite repository | `memory`, `database`: one column in each |
| `BackOffice` | the seven modules before this row, side by side | `desk`: the one that works |
| `BillingProofs`, `JsonStoreProofs`, `UnitOfWorkProofs`, `SchedulerProofs`, `SubscriptionsProofs`, `RepositoriesProofs`, `BackOfficeProofs` | theorems | |
| `SumLemmas` | lemmas: sums over finite sets, least naturals | |
| `MCBilling`, `MCJsonStore`, `MCUnitOfWork`, `MCScheduler`, `MCSubscriptions`, `MCRepositories`, `MCBackOffice` | the instances for TLC | |

### Billing

A step is one call of a repository, because each holds its lock for exactly that
call; validation and allocation, which touch only the thread's own copies, belong to
the step of the next repository call.  `process_payment` is `RecordPayment`
(validation, allocation, `payments.add`), then for each allocation
`SkipAllocation`, or `ReadForPayment` and `Update`; `AbortPayment` is the exception of
comparing a share with a total in another currency.  `void_invoice` and
`apply_credit_note` are `ReadForVoid`/`ReadForCredit` and `Update`;
`run_billing_cycle` is `RunBillingCycle` and one `BillNext` for each subscription.
The caller's own reading of the invoices to pay is `FetchInvoices`, the list
`_cmd_allocate` collects.  Calls that are refused without a change are no steps.

An invoice is its status, total and currency; lines in several currencies give
currency `Mixed`, whose total cannot be read.  A subscription copy keeps what
`generate_invoice` looks at, and its price stands for the plan's price with its
taxes.  `AddPayment` files a payment under its invoice id, as `_entity_id` does.

### JsonStore

A thread goes through `_ensure_loaded` (`EnsureLoaded` without the lock, `LockToLoad`,
`ReadFile`, one `FillOne` for each entity, `Filled`), its method (`Get`, `ChangeCache`,
`Flush`, `Reload`) and `_save` (`LockFile`, one `Rotate` for each backup, `Publish`).
`LoadFails` is an entity that cannot be deserialized, `SaveFails` any exception of
`_save`, `Crash` the death of a process; a copy of a backup that is cut short leaves it
`Torn`.  `flush` takes its snapshot of the dict in one step; that its iteration may
raise when the dict changes is `SaveFails`.  Whether a process saves each change
(`auto_save`) is a constant, and the runs have instances of both kinds.

### UnitOfWork

One thread enters, changes repositories in the block, calls `commit` or `rollback`
itself or not, and leaves with or without an exception; each repository is begun,
committed and rolled back in a step of its own.  A SQLite repository has one connection
of this thread: inside an explicit transaction its changes stay in `store` and hold the
write lock of the database, outside they are committed at once.  Other threads
(`OtherChange`) change memory and JSON repositories directly and SQLite ones through
connections of their own, which wait for the lock.  A call in the block that raises
without a change is the exception the block leaves with; `SaveFails` is one that has
changed the memory of a JSON repository.  A unit may be used again and replaced by a
new one.

### Scheduler

`Register` and `Cancel` are taken between ticks and by the function of a job; `Tick`
makes the iterator, `NextJob` asks it for the next job and tests whether that is due,
`JobReturns` and `JobRaises` end a job's function, `TickReturns` and `DictChanged` end
the tick.  The dict is CPython's: entries in insertion order, a gap where one was
deleted, a rebuild without gaps when the table is full, and an iterator that compares
only the size.  A function that calls `tick` itself, and ticks of two threads at once,
are not modelled.

### Subscriptions

The functions of `lifecycle.py` and `seats.py` return a changed copy; the customer
service and the CLI read a subscription before and store the copy afterwards, and hold
nothing in between.  So a call is two steps: `ManageSeats`, `ChangePlan`, `Activate`,
`Cancel` or `Reactivate` reads and computes, `Store` overwrites whatever is there.
With one caller this is the CLI.  Nobody in the code moves `current_period_start`, so
the period of a subscription is its first one; its length comes from the calendar and
is any of a given set, a single day included, for which plan and seat changes raise.
The customer service takes a date and has today's as its default, the commands to cancel
and to reactivate ask for one, and nothing compares it with today: a call is made for any
day, before or after the one it is made on.  A subscription may start later.

Money is counted in prices times days.  `credit` is history: the price of the first
period, plus what each call reported, less the price of the plan and seats of each day
that passes.  `settled` leaves out a subscription once a call was stored over something
newer, changed the plan of several seats, or changed plan or seats for another day than
the one it was stored on.  Cancellations and reactivations are for any day and leave it in.

### Repositories

Callers and processes share one database, or callers share memory repositories.  A table
is nobody's, a repository's (`Open`) or a migration's (`CreateTable`, one statement at a
time, each committed by itself); both creators say `IF NOT EXISTS`, so the first decides
its primary key and whether it has references.  `Add`, `Change` and `Delete` are a
repository call each, with what SQLite refuses in their guards: a second row with the
primary key, a row that refers to nothing, a row others refer to, and "foreign key
mismatch" where a reference names a column that is not the key.  `onboard_customer` is
`CountCustomers` and `AddCustomer`; what it adds is acknowledged to its caller.
`run_migrations` is `StartMigrations`, its statements, `InsertVersion` (which opens the
transaction that holds the write lock), `CommitVersion` and `MigrationsReturn`; `Crash`
may come at any place.

`Versions` is the abstract specification: a database goes up one version at a time and
has the tables of the versions it says it has.  `Repositories` implements it with the
number of recorded versions as `level` and the existing tables as `tables`
(`UpgradesInOrder`).

### The back office

Seven desks, each with a state of its own and nothing in common.  `BackOffice` lets one
of them work while the others rest where they began, so that they are checked together
and no states are multiplied.

* `Revenue`: a program closes one period after the other, each ending with a month or in
  the middle of one; the job recognises what each obligation earned, and the schedule
  carries its balance on.  `Deferred` is `calculate_deferred`, `Proportional`, `Residual`
  and `Shares` the ways to divide a price.
* `Periods`: a chain of billing periods, its parts and their fractions, and the end that
  `subscribe` gives a first period.
* `Receivables`: a billing cycle stores an open invoice (`Issue`), of any amount and whatever
  the customer owes, since nothing on its way asks `check_credit`; `Outstanding` is what that
  would count, and is compared with the report.  Payments and voids move invoices, days pass.  The AgingJob has a copy of
  the list it was configured with, which it updates for its next run (`RunScheduled`);
  a program may also run it over the repository's invoices and store what it returns.
* `Reconciliation`: one payment a step.
* `Exchange`: the job keeps the last quote of each pair, a program hands its quotes to
  the service; conversions are computed in every state.
* `Taxes`: an invoice is generated, and then taxed, exempted and credited in any order.
  `Adjust` is `apply_adjustment` with the line `apply_credit_note` gives it; the statuses
  that refuse a credit are in `Billing`.
* `Queries`: a memory and a SQLite repository receive the same calls; a value is its rank
  among values and the rank of its text, which for a `Decimal` are different.

Amounts are integers of cents and quotients are rounded exactly.  `Decimal` cuts a
quotient after 28 digits first: where the exact product of a daily rate is half a cent,
the code may round down what `Revenue` rounds up.

## 3. The runs

Bounds are constants named as such in the modules; a run that asks for liveness uses
the specification with fairness.

| run | instance and bounds | shows |
|---|---|---|
| `billing_safety` | 2 threads, 2 invoices and one never stored, 1 currency, 3 calls | `PaidIsCovered`, `CreditsAddUp`, `PaymentNotOverspent`, `FinalStatusKept`: statuses, balances and payments agree up to lost updates |
| `billing_calls` | the same with 2 currencies, 2 calls, fairness | `PaymentBeforeStatus`: also where a call stops half-way, a status has its payment; `CallsReturn` |
| `billing_payments_lost` | 1 thread | **violated** (`PaymentsRetained`): the second payment of an invoice replaces the first in the repository |
| `json_files` | 2 processes with a thread each, 2 keys, 2 backups, 3 writing calls, 1 fault | `PreviousKept`, `BackupsAreHistory`, `Durable` |
| `json_calls` | 1 process, 2 threads on one cache, 2 keys, 2 writing calls, 1 fault, fairness | `RemovedByDelete`; every call returns |
| `json_half_loaded` | 1 process, 2 threads | **violated** (`GetFindsStored`): a `get` during another thread's first access misses a stored entity |
| `unit_of_work` | a JSON, a memory and two SQLite repositories in two databases, 1 item, units used once, 2 repositories changed by others, 1 fault | `ExceptionRestores`, `CommitIsDurable`, `NothingLeftOpen`; `TornInOrder`: what is visible of a unit, whatever fails |
| `scheduler_ticks` | 3 job ids, 6 registrations, times 0 to 2, intervals 0 and 2 | `TickRunsJobs`: a tick runs no job twice or out of order, and all that are due if its jobs leave the registry alone; `FailedTickStopsInPlace`, `RunsAreSpaced` |
| `subscriptions` | 2 callers, 1 subscription, 2 plans, 2 seats, first periods of 1 to 3 days, days 0 to 2, a window of 1 day | `ChargesMatchUse`: charges and credits add up to the days used; `CancelledLeftInWindow`: CANCELLED is left for a day within the window, or by a copy read before the cancellation |
| `subscriptions_plans` | 1 caller, days 0 to 4 | **violated** (`AmountSettlesChange`): a change of plan with two seats is charged for one |
| `repositories` | memory or SQLite, used before or not; 2 callers, 2 migrating processes, 2 customers, 2 payments of one invoice, 2 calls, 2 runs of the migrations | `ReferencesHold`, `KeysFindOne`, `CustomersKept`, `ReportedOnce`, and the refinement `UpgradesInOrder` |
| `back_office` | around the end of February 2024, see below | `PriceAccountedFor`, `DeferredAgrees`, `PeriodsSettle`, `ReportsAgree`, `LatenessAgrees`, `HalfOfBest`, `ConversionsAgree`, `TaxesSettle`, `QueriesAgree` |

### Why the bounds are enough

* Billing: two threads and two invoices are what a lost update and a payment spread
  over several invoices take; the third call sees what two overlapping ones left.  The
  amounts make a payment cover one invoice, part of one, or one and part of the next,
  and a credit note make a balance negative.
* JsonStore: an overtaken save takes two instances or two threads; three writing calls
  fill both backups and rotate once more.  One fault comes at every step.
* UnitOfWork: each kind of repository is once before and once after another one where
  it matters: a JSON rollback that fails stands before the SQLite ones, and a memory
  snapshot between them.  Two databases are what a commit torn in the middle takes.  Units
  follow each other, each used once; a second use of one finds the snapshots of the first,
  and of it the proofs say that it keeps its types (`TypeCorrect`) and nothing is promised.
* Scheduler: a dict that has had five entries is full, so the sixth registration
  rebuilds it under the iterator; three ids suffice for one job that changes the
  registry, one that is skipped and one that is not.
* Subscriptions: subscriptions do not meet, so one suffices; two callers make every
  overlap of two calls.  Of three days one may be before, in and after a period, and two
  apart is past the window; a call is for any of them on any of them.  Nothing happens any
  more when the days are used up, so deadlock is not checked there.
* Repositories: every order in which two migrations and the first use of four repositories
  can come, with a crash of either process anywhere; two calls are a row and what refers
  to it, or two customers with one id.  Calls and runs are used up in the end, so deadlock
  is not checked.
* Back office (`MCBackOffice`): contracts of one or two obligations that begin and end on
  and inside months from January to March, perpetual ones and ones without a price, and a
  price of 1001 that does not divide; closings at the end of a month and on its 14th.
  Chains of up to `MaxPeriods` = 4 further periods from every day that some month lacks,
  fractions in units of `Whole` = 10000.  Two invoices, steps of 1 and 30 days and a term
  of 30 reach each side of a due date, terms of 0 and 30 days other buckets of report and ledger,
  and one of the two amounts is a credit.  Two payments and two
  bank entries of the dates Thursday, Saturday and Monday and amounts on each side of the
  tolerance.  Three currencies and three quotes, from a tenth to twenty-five in units of
  `One` = 10, which leaves inverses of next to nothing.  Lines of 1, 333 and 1001 cents
  with rates of 19.5%, 50% and none, so that ties occur; two taxings and two credits.
  Three rows of three values, among them two ways to write one `Decimal`.  Each desk ends
  when its bounds are used up, so deadlock is not checked.

### Fairness

`Billing!FairSpec` asks that a thread inside a call goes on (weak fairness of its
steps): the service waits for nothing but a repository's lock, which is held for one
step.  `JsonStore!FairSpec` asks for strong fairness of a thread inside a call: it
waits for two locks other threads take again and again, and both `threading.Lock` and
`flock` let a waiter have its turn in the end.  No fairness is assumed of calls being
made, of failures or of crashes.

### Disagreements met while modelling

Three are findings, each with a run that ends in a counterexample:

1. *Payments are lost* (`billing_payments_lost`, `storage/memory.py:25`): the primary key of
   a payment is its invoice id.
2. *A half-loaded store is visible* (`json_half_loaded`, `storage/json_store.py:144`).  The
   same window lets a `flush` of another thread publish a store with entities missing, and
   a load that fails half-way leaves a cache the next change saves over the file; `Durable`
   and `RemovedByDelete` exclude both by name, `PreviousKept` says the old file is
   recoverable.
3. *A change of plan forgets the seats* (`subscriptions_plans`,
   `subscriptions/lifecycle.py:108`): two seats changed to a dearer plan cost the difference
   of one, and removing a seat afterwards credits the new price of it.

In others the code does less than its documentation or a docstring says, or loses something;
the modules do the same.  No property counts one of them as right: it leaves the case out, or
says how far it goes, as named here.

* *Credit notes are lost* (`services/billing_service.py:229`): another call writes a copy it
  read before.  `CreditsAddUp` leaves out the invoice (`clobbered`); `PaidIsCovered` and
  `PaymentNotOverspent` hold with it.
* *Invoices are overpaid* (`payments/allocation.py:52`): "outstanding" is the whole total,
  so an invoice paid in parts may be given more than it was issued for.
* *A unit of work is torn* (`storage/unit_of_work.py:86`): a commit that fails leaves the
  earlier ones committed and its own transaction open, where `docs/architecture.md:185-186`
  promises atomic operations; `TornInOrder` says where it may tear.  A commit in the block
  followed by an exception is half undone, too (`:50`): memory and JSON repositories are
  restored, SQLite ones not.  A unit that is used again appends its snapshots to the first
  ones and restores those.
* *A due job is passed over* (`jobs/scheduler.py:84`) when a job replaces another in a
  full table; of such ticks only the order of the runs is said.
* *An active subscription is reactivated* (`subscriptions/lifecycle.py:158`), as a trial may
  be; `core/errors.py:117` gives it as an example of what raises.  `CancelledLeftInWindow`
  is about CANCELLED alone.
* *A new customer replaces another* (`services/customer_service.py:106`): ids are counted.
  `CustomersKept` leaves out memory repositories where that can go wrong (`disturbed`).
* *The credit limit stops nothing* (`services/billing_service.py:98`): `check_credit` is not
  on the way of an invoice, so no property is about the limit.
* *Partly paid invoices are not reported* (`reports/aging.py:51`), though "unpaid" ones are
  promised.  The credit check leaves them out as well (`ReportIsOutstanding`).
* *Chains of billing periods drift* (`core/period.py:76`): each starts from the one before,
  so a chain from the 31st loses days, where the docstring (`:53-55`) has the "same
  day-of-month".  `ChainKeepsMonths` says exactly how far: to the earliest day promised so far.
* *The last day has no stub* (`core/period.py:146`), where the docstring has `None` only
  past the end.  A comment of a test takes the side of the code.  `StubsSettle` says nothing
  of the last day.
* *A quarter has four months* (`subscriptions/lifecycle.py:205`) in the first period of a
  subscription.  `FirstPeriodCovers` says nothing of quarters.
* *Shares leave a rest* (`revenue/allocation.py:48`): `docs/ifrs15.md:86-87` lets the last
  obligation absorb the rounding; each share is rounded by itself.  `BundleDivided` bounds
  the rest by half a cent for each obligation.
* *Stub months in the schedule* (`revenue/deferred.py:96`): the last one counts whole, and
  each is computed from the whole price, not from the obligation's share.
  `ScheduleAgrees` is about contracts without them (`Plain`).
* *A find in a database is no test for equality* (`storage/sqlite_store.py:349`): a
  condition on `None` finds nothing, a `Decimal` is compared as text.  `QueriesAgree`
  leaves out both.

These are worth knowing besides:

* A billing cycle run twice bills twice: nothing records which periods were billed.
* `docs/persistence.md` describes one table `entities`, a `_schema_version`, and migrations
  that run automatically.  The code has a table for each type, `_migrations`, and no
  repository runs them.  If the
  repository of payments is opened before the migrations, its table keeps `invoice_id` as
  the key, while the migrated `reconciliation` refers to its `payment_id`: from then on
  every update and deletion of a payment raises "foreign key mismatch" (`ReferencesMatch`).
* A stub month is recognised by the day and the rest of its share never.
  `recognize_revenue` counts each calendar month a period touches as a whole, so periods
  that do not end with a month recognise it twice (`whole`).
* `reconcile` counts business days with both ends, and compares no currencies.
* The ledger debits invoices that were voided, and ages by issue date (`OnlyInLedger`).
* The AgingJob works on copies that nobody stores; the FXRateJob's rates reach no service
  unless a program hands them over; `BillingJob` stores no invoice.
* Exemptions by jurisdiction never apply, since a `TaxRate` has none; `compute_tax` rounds
  half a cent to even and `calculate_tax` up; a taxed list is taxed again.
* In a database a `Decimal` in an IN raises.
* The last share of `Money.allocate` makes up for the others' rounding and may be negative.

## 4. The proofs

Every type invariant, every safety invariant and every action property that a passing run
checks is also a theorem of its specification, for all values of the constants that the
module's assumption allows.

### Sums without induction

Balances, debts, taxes and revenue are sums, and the community modules define a sum as a
recursive function over subsets.  `SumLemmas` derives what is needed of it without an
induction schema: `LeastNat` and `SmallestSet` say that a non-empty set of naturals, or of
finite sets, has a least member, so what holds for all has no least exception.  From this
follow that the recursive function exists and is unique on the subsets of a finite set
(`SumFunctionExists`, `UnfoldsUnique`), hence that a sum does not depend on the order in
which its members are picked (`SumRemove`), and then the rest: sums of disjoint sets, of
two functions, of a multiple, of differences that telescope, and sums between bounds.
`BackOfficeProofs` carries them over to sequences and to sequences of sequences.

### Billing

`BillingProofs` begins with the pure functions of `PaymentAllocation`, for all lists and
amounts: what is left of a payment falls by exactly each share (`RemainingStep`) and never
below zero (`RemainingBounded`); without negative totals an invoice receives between
nothing and its total, and one that receives less leaves nothing for later ones
(`AllocationsPriority`); and every list is sorted in exactly one way (`OneSortOrder`), so
that `process_payment` never stops for want of an order.  Then it proves of `Spec`, for any number of threads, invoices,
currencies and calls and from `BillingAssumption` alone (the special values are no
records, seats and bounds are naturals, amounts are integers, a payment's are not
negative, which `services/billing_service.py:136` refuses):

* `TypeCorrect`: `[]TypeOK`;
* `PaidCovered`, `PaymentFirst`, `CreditsCounted`: `[]PaidIsCovered`,
  `[]PaymentBeforeStatus`, `[]CreditsAddUp`;
* `FinalStatus`: the action property `FinalStatusKept`;
* `NeverOverspent`: `[]PaymentNotOverspent`, if no charge is negative.  The hypothesis is
  about drafts: a draft of a negative total would take a negative share that is never
  applied, and the other invoices would share more than the payment has.  A stored
  invoice may have a negative total.

None of these invariants is inductive: a write that is still pending decides what it
will make of an invoice, and an invoice a cycle is still to add must not exist yet.
The strengthening is a conjunction of named parts:

* `TypeInv`: `TypeOK`, and for each place in a call what the thread holds there (a
  thread about to write has a pending write, one that applies has allocations left);
* `WriteInv`: a pending write was computed from the invoice as it was read by the rule
  of its method, and the statuses it shows are backed: by the payment already stored
  and the allocation about to be recorded;
* `BillsInv`: invoices still to be added are new, and no two cycles share an id;
* `CreditInv` and `StoredInv`: charges, credits and applied allocations against the
  stored invoice;
* `SpendInv`: payments in progress have ids of their own (`IdsInv`), a list has an invoice
  once (`ListInv`), and what a payment has given, is giving and still has to give comes to
  no more than its amount (`PaidInv`).

Each action that changes an invoice is a lemma; the others leave the parts unchanged.

### Scheduler

`SchedulerProofs` proves `TicksRunJobs`, `FailedTicksStop` and `RunsAlwaysSpaced` from
`SchedulerInvariant`, for any jobs, intervals, times and registrations.  `EntriesInv` says
that the dict has the jobs that were not cancelled in the order of their registration,
through every rebuild that closes its gaps; `PassedInv` that a tick whose jobs left the
registry alone has passed what it ran or what was not due, and runs the job it stands at;
`RunningInv` that the running job is due or was cancelled; `SpacedInv` that two runs which
both returned are an interval apart.  `OrderInv` is for every tick, whatever its jobs do: what it has still to pass was registered
after the job that ran last, since new entries go to the end and a rebuild moves none back
(`PackedForward`).

### Subscriptions

`SubscriptionsProofs` proves `TypeCorrect`, `ChargesSettle` (`[]ChargesMatchUse`) and
`CancelledInWindow` (the action property `CancelledLeftInWindow`) of `Spec`, for any callers,
plans, prices, periods, windows and days, from `SubscriptionsAssumption`.  Its invariant
adds three parts: `StoredInv` (ids come in order, a stored subscription has a period),
`CallInv` (the amount about to be reported is the difference between the prices ahead
before and after, seen from the day the call is for) and `WindowInv` (what is, or is about
to be, CANCELLED has a date of its cancellation; a copy made of one was made for a day
within the window of that date).
`BeginKeeps` says once what a call must satisfy; each kind of call is shown to, by
distributing a price over seats and days.

### JsonStore

`JsonStoreProofs` proves of `JsonStore`, for any processes, threads, keys, values,
backups, calls and faults and from `JsonStoreAssumption` (each thread has an instance,
the special values are no contents, there is at least one backup): `TypeCorrect`,
`PreviousAlwaysKept`, `BackupsAlwaysHistory`, `AlwaysDurable`, and `OnlyDeletesRemove`
(the action property `RemovedByDelete`).  The invariant `JsonStoreInv` adds to the
properties what a thread has at each place: `ThreadInv` (the locks it holds, hence that
no two threads rotate and no two of one instance load or change), `RawInv` (what it has
read is the file, and what it is to write lacks nothing but what it deletes, while
nothing has parted its instance from the file) and `BackupInv` (a rotation has moved
exactly the backups above its index, and the first backup is the file when it is about
to be replaced).

### UnitOfWork

`UnitOfWorkProofs` proves `TypeCorrect`, `AlwaysTornInOrder`, `NothingEverLeftOpen`,
`ExceptionsRestore` and `CommitsAreDurable` for any repositories of each kind in any
order, from `UnitOfWorkAssumption` (a repository has one kind and is listed once).  Its
invariant is in layers, because most of what a unit promises is lost by a failure or by
a second use: `LockInv` and `UnitInv` hold always; in the first use of a unit without
failures (`Clean`) `OpenInv` says which transactions are still to be ended, and
`WayOutInv` what the block leaves; if the block does not end the unit itself
(`Untouched`) `RestoreInv` says that every repository not yet rolled back can be, from
its snapshot, found by its position, or from the disk.

`AlwaysTornInOrder` also holds where calls fail and the process dies.  Its invariant
`TornInv` says that until the commits begin every database of the unit shows what it had,
that each one has been begun when the block is entered, so that what the block changes stays
in its transaction, and that the place the commits have reached is the one up to which the
databases show what the block left.

### Repositories

`RepositoriesProofs` is about `Repositories`, for any callers, processes, ids and calls,
from `RepositoriesAssumption`.  `MigrationInv` says
that versions are recorded in order and with their tables, and that each process is at
the first version it does not know of; from it follow `EachVersionReportedOnce` and
`MigrationsImplementVersions`: the initial states map to those of `Versions`, and each
step to a step or a stutter (`CommitVersion` to `Upgrade`, `Open` and `CreateTable` to
`Create`).  `EntityInv` adds what a table that is not there holds, and how many customers
a caller can have counted; with it `TypeCorrect`, `ReferencesAlwaysHold`,
`KeysAlwaysFindOne` and `OnboardedCustomersKept`.

### The back office

`BackOfficeProofs` has a theorem for each property of a desk, and an invariant for each
desk, which the steps of the other desks leave alone:

* `LatenessAlwaysAgrees`, for any invoices, charges and days, by `ReceivablesInv`: what is
  overdue is past its due date, and what the job's list still has open is fresh.
* `ReportsAlwaysAgree`, for any charges and credits, terms and days: an invoice is due when
  it was issued or later (`DueLater`), so it is in no later bucket of the report than of the
  ledger, and the sum from any bucket on splits into what both and what only one has; no stored
  invoice is a draft, so the sum of all is what the credit check counts (`ReportAddsUp`).
* `AlwaysHalfOfBest`, for lists of any length: each near pair of a payment that had its
  turn shares the payment or the entry with a claimed pair, which maps any matching
  one-to-one into two copies of what is claimed.
* `PeriodsAlwaysSettle`, from any first day, for chains of any length and any number of
  places: a month is never skipped, and the day is the earliest that was promised so far
  (`PeriodsInv`); days of a period are counted through leap years by lemmas on `Ordinal`.
* `ConversionsStayClose`, for any currencies, quotes and number of places: what is lost
  there and back is bounded by the errors of the roundings it goes through, which
  the lemmas on `HalfUp` and `HalfEven` bound one by one.
* `RepositoriesAgree`, for any keys, queries and values of which no two have one text:
  rows are at the same places in both repositories, and a selection is a function of the
  places it keeps.
* `DeferredAlwaysAgrees`: `RevenueInv` says that after whole months, however grouped into
  periods, the job has recognised what the months until then count; `ScheduleInv` that
  the balance is what is left, since what the months add and take telescopes.
* `PriceAlwaysAccountedFor`: each way to divide a price gives it but for half a cent for each
  obligation, and `AtLeast`
  bounds from below what was recognised of an obligation; over its whole life no more
  is missing than the roundings and stub months leave out.
* `TaxesAlwaysSettle`: `TaxesInv` is the property itself stated over the sequence of lines
  (`Settled`), to which inserting tax lines behind charges adds, line by line, a tax that
  `Fits` its charge.
* `AlwaysTyped`: `[]TypeOK`, from all of these (`DesksInv`) and a few bounds (`BoundsInv`).

Their assumptions say what the code lets in: `PeriodsAssumption` that first days exist in
their months, `ExchangeAssumption` that quotes are positive (`fx/rates.py:43` refuses
others), `QueriesAssumption` that the values of one column have different texts, since
the database has nothing else to tell them by; of rates, charges and prices of an invoice they
ask nothing but to be integers.  Only `RevenueAssumption` asks for what nobody in the
code checks: that prices are not negative and that an obligation does not end before it
starts.  An obligation without a day and a contract that is sold for less than nothing are
outside of what IFRS 15 recognises.

The proofs changed the model in two places: in `DeferredOf` and `UsedRate` the guards of a
CASE overlapped, where TLC takes the first that holds and the semantics any; both are now
chains of conditions, in the order of the code.

### Left to TLC

`CallsReturn` of `billing_calls` and `json_calls` is liveness under fairness, for which the
provers have no rule, since ENABLED is beyond them.  The findings are
counterexamples.

## 5. What is not modelled

Components that are `partly` modelled say in `PROJECT.json` what is left out.  In short:

* Sums over a list the caller gives: running balances of the ledger, the limit by
  history, revaluation of receivables (whose original rate is always 1) and recurring
  revenue.  They keep nothing from one call to the next.
* `BillingJob`: it generates invoices as `run_billing_cycle` does, stores none and counts
  them, one with foreign lines both as generated and as an error.
* The conversion of whole entities to and from JSON; that it may fail is in `JsonStore`.
* A scheduler whose jobs call `tick`, or that is ticked by two threads at once.
* `CONTAINS`, a substring to the memory repository and a pattern to SQLite.
* Parsing, printing, formatting, checks of single values and the error classes, which
  carry no state the properties could speak of.
* Power failures: a process may die anywhere, but what the system was told to write is
  written.

## 6. What would come next

1. The four jobs as the functions a tick of `Scheduler` calls, with a failing job before
   the others, instead of each at its desk.
2. `Store`, what any repository promises (a map that changes by one acknowledged call at a
   time), implemented by `JsonStore` of one process while no fault and no flush comes in
   between; `AtomicUnit`, implemented by first uses of `UnitOfWork`; both checked, and proved
   for all constants.
3. Invoices of later periods and pending cancellations, composed from `Periods`,
   `Subscriptions` and `Billing`.
