# Verification of actual-mcp-server

actual-mcp-server lets many MCP sessions use one `@actual-app/api` singleton.  The
singleton is global to the process and has one budget open at a time; sessions work on
different budgets, log in, switch, import and leave concurrently, and every upstream call
may stall or fail.  The code that keeps a session's operation on that session's budget is
spread over a mutex, a record of what is loaded, tracked loads, timeouts, a pool and a
write queue; in front of it stand the HTTP sessions and the budget ACL, and behind it the
operations whose answers a client relies on.  These modules model that code, TLC checks it
on small instances, and TLAPS proves what matters most for every instance.

## Inventory

| part | source | state | operations | what makes it correct |
|---|---|---|---|---|
| api mutex | `src/lib/apiLock.ts` | `held`, `waiters`, `consecutiveSkips` | `withApiLock` = acquire, settle abandoned loads, body, `grantNext` | one owner; nobody left asleep; affinity bounded, never across a barrier, in order within one budget |
| singleton state | `src/lib/apiState.ts` | live flag, record of the loaded budget, pending loads | `setApiInitialized`, `setLoadedBudgetSyncId`, `registerBudgetLoad`, `awaitAbandonedBudgetLoad` | the record is never wrong, at worst empty |
| budget loading | `src/lib/budgetLoader.ts` | a cache of failure reasons; writes the record | `trackBudgetMutation`, `loadBudgetTracked`, `importBudgetTracked`, `diagnose` | a load that outruns its bound never moves the singleton under somebody's operation; the reason given is one that was true |
| operation wrappers | `src/lib/actual-adapter.ts`, `opTimeout.ts` | active budget of each session | `withActualApi(Write)`, the precondition, init and shutdown of the singleton, `switchBudget`, `importBudget` | an operation meets its own session's budget; the singleton is not torn down under others; every call returns |
| write queue | `src/lib/actual-adapter.ts` | `writeQueue`, `isProcessingWrites`, timers | `queueWriteOperation`, `processWriteQueue` | every write settles exactly once, in order |
| drain listing cache | `src/lib/actual-adapter.ts` | memoised listings of one drain | `readDrainListing` and what an operation invalidates | a guard never decides on a listing a sibling has made stale |
| entity operations | `src/lib/actual-adapter.ts`, `src/tools/` | upstream's tables | look up, refuse or write, answer | no row that no create made; success and refusal tell the truth |
| connection pool | `src/lib/ActualConnectionPool.ts` | an entry per session | `getConnection`, `shutdownConnection`, idle sweep, `shutdownAll` | a teardown never hits a running operation; a slot comes back |
| HTTP server | `src/server/httpServer.ts` | transports, init promises and failures | initialize, POST, GET, eviction, cleanup | a session and its pool entry live and die together, and a client is told which |
| stdio server, failures | `src/server/stdioServer.ts`, `src/lib/init-failure.ts` | none | classify, brand, reply | the cause that is named is the cause |
| limiter, retries, version guard | `src/lib/actual-adapter/concurrency.ts`, `retry.ts`, `auth-retry.ts`, `server-version-guard.ts` | counters, a queue, latches | run, retry, probe once | nothing is stranded, a failure is not latched |
| bank sync | `src/lib/actual-adapter.ts`, `src/tools/bank_sync.ts` | a process-wide listener, a timer | resolve, sync, settle | the answer is the provider's |
| budget ACL | `src/auth/` | two caches with a lifetime | resolve a name, resolve its budgets | fails closed; a cache never widens access |
| preference store | `src/lib/budget-preference-store.ts` | a file | get, set, restore | a preference never widens access |
| reports | `src/lib/financial-analysis.ts`, `src/tools/transactions_*.ts` | none | postings, sums, searches, recurring bills | each event is counted once |
| release-train reporters | `scripts/report-train-stale.mjs`, `scripts/report-train-failure.mjs` | issues of a tracker | one pass per push or per train | an issue is open exactly while there is something to report |
| tools, queries, set-up | `src/tools/`, `src/lib/`, `src/auth/setup.ts` | none | schemas, texts, configuration | |

Calls arrive over HTTP or stdio.  The middleware resolves the budgets the caller may
touch.  A tool calls the adapter, which runs a read inside `withActualApi` or queues a
write; both take the api mutex, make the session's budget the loaded one through the
tracked loader, and talk to the singleton.  The pool and the adapter both initialise and
shut the singleton down and meet only in the mutex and in `apiState`.  The pool tells the
HTTP server of an eviction and of nothing else.

What is hard here: JavaScript interleaves the calls at every `await`; a timeout rejects
the waiting caller and cancels nothing, so loads, operations and shutdowns land after
their caller has left; some bookkeeping happens after the lock has been released; some
teardowns run without it; caches are filled after awaits; the library ignores, inserts or
answers `false` where a caller expects an error; one operation is several raw calls, of
which one may fail and be repeated.

## Modules

`ApiMutex` is the abstract mutex: one holder, direct hand-over, nobody passed over for
ever.  It says nothing about the order of service.

`ApiLock` is `apiLock.ts`: the queue of waiters with their budget hints, the affinity
rule with its cap and barriers, and the bounded settling of abandoned loads that every
acquisition starts with.  `pc` says where each caller stands in `withApiLock`; the body
is one action that may move the record (`loaded`).  Two history fields of a waiter,
`ahead` and `overtaken`, exist for the fairness bound only.  `ImplementsMutex` is the
refinement of `ApiMutex`, fairness included.

`Adapter` composes the wrappers, the loader, the singleton's state, the pool and
upstream, over `ApiMutex` as its lock, so that it does not depend on the order of service.
Its state: the mutex; `live`, `record`, `loads` (apiState); `open`, `lateShutdown`,
`strays` (what upstream really does); `entry` and `slot` (the pool's entry and the active
budget of each session); `pc`, `kind`, `want` (each call).  `kind` is the path a call
takes: an operation on a pooled session (`pooled`) or not (`legacy`), `open`, `cleanup`,
`close`, `evict`, and the two paths of `switchBudget` (`reload`, `rebind`).

| code | actions of `Adapter` |
|---|---|
| `withActualApi`, `withActualApiWrite` | `StartOp`, `OpEnds`, `OpTimesOut`, `Finish`, `KeepAlive`, `Stop`, `Stopped`, `StopTimesOut` |
| lock acquisition | `Enter` in each request, `Settle`, `SettleTimesOut` |
| precondition and init | `Matches`, `Select`, `Initialise`, `InitFails`, `Selected`, `Initialised` |
| `trackBudgetMutation` and its loads | `Track`, `LoadCloses`, `Downloaded`, `Recorded`, `ImportLands`, `LoadFails`, `LoadTimesOut`, `Diagnose`, `Diagnosed` |
| `importBudget` | `StartImport`, `ImportLands` |
| `getConnection` | `StartOpen`, `Opened`, `Retreat`, `CleanedUp`, `Cleared` |
| `shutdownConnection(Locked)` | `StartClose`, `NothingToDrop`, `DropEntry`, `StartDrop`, `Dropped` and, without the lock, `NothingToTear`, `TearEntry`, `StartTear`, `TornDown` |
| `switchBudget` | `SwitchNoOp`, `StartSwitch`, `Reloaded`, `Rebind` |
| `session_close` | `StartClose`, `Closed` |
| upstream (external) | `LoadCloses`, `ShutdownSettles`, `LateShutdownLands`, `StrayEnds` |

A step is the code between two awaits that matter.  Promise continuations run before
timers and I/O, so a step that needs a reply, a timer or a new request is enabled only
when no call has a continuation pending (`Quiet`, `Continuing`).  Without it the model
would report races that Node.js excludes.

Abstractions of `Adapter`: a write is a batch of one (`WriteQueue` models batches); the
import's inner and outer bound are one timer; `sync` calls move no state
and are part of the operation; the ACL is outside (`BudgetAcl`); a call's outcome is only
the class of its failure (`failed`, or `broken` when `_shouldDropPoolOnError` holds); the
expiry test of the sweep is a free choice (`HttpSessions` has its clock).

`WriteQueue` is the write queue: the calls of `queueWriteOperation`, the debounce timer,
the two parts that an entry's `residencyTimer` plays, and `processWriteQueue` from the
moment it takes the batch to its `finally`.  `stage` says where the drain stands, `batch`
holds what the loop has not reached, `current` what it serves.  `opTimeout` is
`ACTUAL_OP_TIMEOUT_MS > 0`, chosen once at the start.  `began`, `ticket` and `arrivals` are
history.

| code | actions of `WriteQueue` |
|---|---|
| `queueWriteOperation`, `scheduleWriteQueueDrain` | `Enqueue`, `ResidencyExpires` |
| the timer's callback and the head of `processWriteQueue` | `DebounceFires` (with `Dispatch`) |
| `withApiLock` and the branch's init | `LockGranted`, `InitFails` (the inner catch), `LockRefused` (the outer catch) |
| the loop up to the operation's start | `SkipEntry`, `FailFast`, `StartEntry` |
| the wait for an abandoned load, the precondition | `SettleTimesOut`, `SelectFails`, `Selects` |
| the operation under `withOpTimeout` | `OpEnds`, `OpTimesOut` |
| `armStrandedBound` | the `timers'` of `Dispatch` and `Reaches`; `StrandedExpires` |
| sync, shutdown, `clearStrandedBounds`, `finally` | `LoopEnds`, `Closes`, `EndDrain` |
| `apiState`'s pending loads | `LoadLands`, `LoadLeft` (by another holder of the mutex) |

Abstractions of `WriteQueue`: the mutex is `LockGranted`'s enabledness, because
`Adapter` and `ApiLock` are about it; the set of pending loads is the flag `pending`; an
error is only "the operation was not invoked" (`refused`) or "it was" (`failed`); the
trailing sync and the shutdown of the singleton change nothing the properties tell apart.

`Ledger` is what the writes of a drain do: accounts, payees, categories, groups, notes and
transactions.  `db` holds the tables of each budget as upstream keeps them (dead rows
included), `cache` the memoised listings, `draining` the drain they live in.  One action
per operation: the tool's validation, the guard through `Read` (`readDrainListing`), the raw
call, the answer, and `Drop`, the invalidation of what the operation does not declare
preserved.  Operations of one drain run one after the other, as `WriteQueue` shows, so an
operation is one step.  The raw calls are external: what the source says of them is that an
update of an unknown id inserts a row, that a delete leaves a dead one, that some calls
are ignored without a word.

`BudgetMonth` is the same for the months of a budget (`setBudgetAmount`, carry-over,
`transferBudgetAmount`, the batch tool with its bracket, `holdBudgetForNextMonth`,
`resetBudgetHold`), with the raw calls that fail half way and the retries that repeat
them; `RuleBook` for rules, schedules, tags and the default category of a payee, with the
identity of rules in `rule-matching.ts`.

`Insight` records postings as `getTransactions` lists them (splits with children, transfers
with two legs or with one that was lost) and defines every report as an operator on that
list: `PostingRows`, `AggregateTransactions`, `SummarizeAccountFlow`, the searches and the
summaries.  `ReportsAddUp` compares them with one another and with what was recorded.
`Recurring` does so for `summarizeRecurringExpenses`: a biller with a schedule makes the
payments and the answer is compared with the schedule.

`BudgetAcl` is the middleware (`Arrive`, `UserInfoArrives`, `StartListing`,
`LockForListing`, `ListingArrives` and their failures), the check at the entry of an
operation (`EnforceBudgetAcl`, `Operate`), `SwitchBudget`, `CloseSession`, and around them
an administrator who changes access, an identity provider that renames, restarts and
time.  `lapse` is history: how long ago a name or a grant last held.

`HttpSessions` is the session table of the HTTP server with the pool's clock.

| code | actions of `HttpSessions` |
|---|---|
| `onsessioninitialized` and its connection | `Initialize`, `Connected`, `ConnectFails` |
| POST, GET | `PostArrives`, `Resume`, `GetArrives`, `Answered` (with `WithoutTransport` for what has none) |
| `cleanupIdleConnections`, `onSessionEvicted` | `SweepMarks`, `SweepChecks`, `TornDown` |
| drops that are no eviction | `InfraDrop`, `SwitchReleases`, `SwitchReopens` |
| `session_close` | `CloseBegins`, `CloseLocks` |
| the handler of a signal | `Signal`, `ShutdownSession`, `CleanupEnds` |

`Connecting` is one call of a stdio process from login to reply: the bounded wait for an
abandoned load that comes with the lock (`LoadIsAwaited`, `AwaitTimesOut`), `LogIn` with its
retries, the version probe, the load and `diagnose` with its cache of reasons, the limiter's slots,
the retries of the operation, and `StdioReply`.  Its calls hold the api lock in turn, so that
what interferes is what was abandoned (`late`, `hung`, `queued`) and the world (`Turn`).
`BankSync` is `actual_bank_sync`: the lookup of the account, `runBankSync` with its settle
timer and its process-wide listener, and the bound of the operation around it, in ticks.
The listener keeps the failures it knows by type or words (`Recognised`); a network failure
in the background is none of them.

`TrainStale` is a pass of `report-train-stale.mjs` over workflows whose runs the API may list
incompletely, cancelled by the next push wherever it is; `TrainFailure` is the reporter of
release trains over a tracker on which people close and label issues too, and each request
of which may fail.

`MCDomain` puts nine of these side by side so that one run checks them: `part` chooses one,
the others rest.  They share no state, so nothing is composed; what is
composed is said above (`Adapter` over `ApiMutex`, `ApiLock` refining it; `Ledger` in
the drains of `WriteQueue`).

`SequenceFacts` holds what the proofs need to know of appending to a queue, taking its head
and removing a position, of the least and the greatest of some numbers, of the sums and
folds of the community modules, and of recursive functions.  `ApiLockProofs`,
`AdapterProofs`, `WriteQueueProofs`, `LedgerProofs`, `HttpSessionsProofs` and
`RecurringProofs` hold the theorems about the modules they are named for, `LedgerProofs` also
those about `Insight`; `DomainProofs` those about `TrainFailure`, `TrainStale`, `BankSync`,
`Connecting`, `RuleBook`, `BudgetMonth` and `BudgetAcl`, one part each.

## Runs

| run | question | bounds |
|---|---|---|
| `apilock` | bounded affinity, barriers, order; nobody starves; the lock implements `ApiMutex` | 4 callers, 2 budgets, cap 1 |
| `adapter_safety` | operations keep to their own budget under every fault | 2 calls of 2 sessions, 2 budgets on one server |
| `adapter_own_budget` | an operation finds its budget open | 2 servers; operations and shutdowns fail, operations stall |
| `adapter_live` | every call returns | 2 calls of one session, 1 budget; loads and operations stall, operations fail; shutdowns are answered |
| `adapter_cleanup_race` | a disagreement (below) | only `api.init()` fails |
| `writequeue` | a write told that it did not run never runs; order; nothing lost; with the timeout on every write settles, on or off no entry of a batch is stranded | 3 writes |
| `ledger` | memoised listings stay true, no phantom rows, splits and transfers hold together, success and refusal tell the truth | 3 operations in any grouping into drains, 2 accounts, 2 payees and 2 categories, one of each yet to be created |
| `ledger_foreign_listing` | a disagreement (below) | 2 operations, 2 budgets |
| `sessions` | clients are told the truth, the sweep spares the active, an abandoned session frees its slot | 2 sessions, 2 requests, 1 slot, no idle time |
| `domain` | who may touch which budget; money and rules after a call; reports; recurring bills; what callers are told; the reporters | see below |
| `rulebook_cleared`, `bank_sync_timeout` | two disagreements (below) | as `domain`; the bound of an operation equals the settle timer |

Bounds.  Two calls are enough for each race of `Adapter`: it takes one call that leaves
something behind and one that meets it, and the pool entry of a call's session outlives the
call.  Two budgets are enough because the properties only tell "own" from "other".  Four
callers let affinity run into its cap over a waiter that is not the head.  Of three
writes one can be served while a second waits in its batch and a third in the queue.
`Faults` names what may go wrong upstream; the properties that need a fault excluded say so
by the run.  Three operations of `Ledger` are one that fills a listing, one that
changes what it lists, and one whose guard reads it.  One slot makes two sessions compete
for it; with an idle time of no tick every tick is a chance of the sweep.

Bounds of `domain`.  The ACL: two requests of two sessions of one subject, two names, two
budgets, three events of the world, and lifetimes of two ticks against answers of one,
under four configurations.  Months: two, with two categories and one that does not exist,
three calls.  Rules: three ids, two calls, on a rule that a schedule owns.  Reports: every
book of two events in two accounts of which one is off budget; two events are what it takes
for a pair to be counted twice.  Bills: nine of the five rhythms, chosen for short months,
leap years and a price that rises within and beyond the tolerance, four payments, on the day
they are due or two days later.
Connection: two budgets, five calls, three changes of the server, two slots, a reason reused
once; three changes and three calls are what it takes for a reason to be repeated beyond its
uses.  Bank: two syncs, two accounts of one name, a provider that is done within one tick.  Reporters: two workflows and three
events; three trains, three issue numbers, two interventions by hand.

Fairness.  `ApiLock`: a granted caller settles or gives up, and a body ends, because
`withOpTimeout` bounds both.  `Adapter`: strong fairness, because a step that is ready is
disabled again and again by `Quiet` while other calls' continuations run, and the event
loop does get to it; `AwaitedLoad` is fair because a load a caller waits for lands or
times out, and an abandoned one is not assumed to land; the mutex serves each waiter, which
is what `apilock` shows of the real lock.  The answers to the pool's `api.shutdown()`
calls are fair only in `FairSpec`: they have no bound in the code.
`WriteQueue`: timers fire and the loop goes on.  With the operation timeout on, the mutex
comes, as `adapter_live` shows while the pool's shutdown answers, and `withOpTimeout` bounds
the waits of an operation; with it off nothing of this is assumed.  `Closes` is never fair: it
may await the pool's unbounded shutdown.  `HttpSessions`: timers fire, the sweep goes on with
what it marked, and a request that began ends; that a client comes back is not assumed.

The types of `ApiLock`, `WriteQueue` and `HttpSessions` are proved and no longer checked by a
run.  `DomainTypeOK`, which `domain` checks, puts the types of its nine parts together; each
part's is a theorem about that part's own specification.

## Findings

1. `adapter_cleanup_race`: `getConnection`'s error path clears the live flag after the lock
   has been handed on.  A queued operation trusts the stale flag and record.
2. `ledger_foreign_listing`: the listing cache of a drain is keyed by the kind of listing only,
   and a batch may hold operations of sessions on different budgets: a guard decides on the
   other budget's rows.
3. `rulebook_cleared`: `updatePayee` ignores the `false` of the library for a rule that a
   schedule owns, and reports a default category as cleared that is not.
4. `bank_sync_timeout`: with the default settings the settle timer of a bank sync and the
   bound of the operation around it are equally long, and the latter is armed first: a
   sync of a linked account is always reported as timed out.

Seen while modelling, without a run of their own:

- A bounded `api.shutdown()` that is abandoned is not registered as a load is, and closes the
  budget of a singleton initialised since.  An operation that outran its bound goes on outside
  the lock.  The pool's unlocked teardown can overlap an operation.  The pool's capacity is
  checked before the awaits and used after.  The pool's `api.shutdown()` under the lock has
  no bound.  With `ACTUAL_OP_TIMEOUT_MS=0` the stranded bound covers the entries of a batch,
  not those queued while the drain's operation stalls.
- ACL.  Within one session, a request that waits for the lock runs on whatever budget another
  request of that session switched to or restored meanwhile; a session closed by another
  one meanwhile runs it on the default.  `AccessWasGranted` says what remains true.
  `runAclPreflight` says that it "also warms the resolver cache" and fills none.
- HTTP sessions.  A request that arrives while the api shuts down for its session is cut off.
  After a drop that is no eviction the transport stays, which the comment at
  `httpServer.ts:313-316` excludes.  `session_close` racing such a drop answers success
  without evicting.  After the cleanup of a signal the listener is still open.
- Connection.  `budgetLoader.ts:304-305` says that after a failed diagnosis "the next call
  re-attempts the diagnosis anyway"; the counter was reset, so it does not, and the promise
  at line 184, no stale reason for "more than 20 failed calls", holds only while
  diagnoses succeed.  `CauseIsTrue` therefore allows what is promised, and as many calls more
  for each diagnosis that failed; the run `domain` reaches that, and without the allowance
  TLC finds the stale reason.  The text of a time-out is cached as a reason.  An abandoned
  load that lands clears the reason unverified.  A call that the lock's wait for an abandoned
  load stops is told "timed out" without a name, like a slow operation, although it never
  started: `withApiLock` throws before `withActualApi` can brand the error.
- Bank sync.  A connectivity error is wrapped without its `cause`, so that it loses the
  brand `init-failure.ts:228-231` expects of this site; a throttled login becomes "Cannot
  connect"; an abandoned sync's late rejection is told to another sync's caller; the
  listener does not recognise network failures, which the process tolerates elsewhere: a
  sync that fails so in the background is told as success, although the tool "waits up to 30
  seconds for the provider to confirm the operation and surfaces errors" (`bank_sync.ts:12`).
  `OutcomeIsTrue` says no more than the code does: a success is a provider that succeeded,
  or failed in a way the listener does not know.
- Recurring bills.  A payment that runs over into the next month breaks a monthly rhythm; a
  yearly bill is visible in the default window for half the year only; after four
  payments a single purchase of a similar amount is merged as a price change.
- Reports.  `transactions_summary_by_payee` resolves its account and does not use it, and
  limits before it sorts; the searches by category miss the children of splits that
  the summary by category counts.
- Tools.  The group tools refer their callers to `actual_accounts_update`, whose schema
  refuses a group; the batch of budget updates does not look its categories up.
- Reporters.  When the jobs API is out, a train broken after it wrote its outcome is told
  as a success although `TRAIN_JOB_RESULT` says `failure`; duplicates that
  `decideStaleTransition` computes are never closed.

## Theorems

`ApiLockProofs` proves for every set of callers and budgets and every cap: the types, one
owner (`LockOneOwner`), the bound on overtaking, the barrier, the order within a budget, and
that every step of the lock is a step of `ApiMutex` or a stutter.  The bound on overtaking
is not inductive: a waiter is overtaken at most `MaxSkips` times while it is the head and
its position falls by one whenever the head is served, so the invariant carries
`overtaken <= MaxSkips * (ahead - position + 1) + consecutiveSkips` in terms of its
current position.

`AdapterProofs` proves for every set of callers, sessions and budgets and every set of
faults: the types, `AdapterIsolation` (no operation runs on another session's budget),
`AdapterRecordHonest`, `AdapterOneLoad` and `AdapterSingletonKept`.  Isolation alone is not
inductive; the invariant has four parts.  `Owned`: a call past the acquisition holds the
mutex, so there is one such call.  `LoadsTracked`: there is one load, nobody has passed the
settle step while it is in flight, and one that is not abandoned belongs to a call that is
waiting for it.  `RecordHonest`: while the record names a budget, no load is in flight and
that budget or none is open.  `Chosen`: a call past the selection has its own budget open
or none.  A load that lands under an operation contradicts the second part, a precondition
that passes wrongly the third.  `SingletonKept` needs one more fact, `NoneOpening`: a call
that is about to add its pool entry is not overtaken inside the mutex by another one that
already had a reply from upstream.

`AdapterOpHasBudget` (an operation never runs with no budget open) holds under some faults
only.  Its hypothesis `Calm` says which: no load and no shutdown stalls past its bound, and,
outside a stdio process, no initialisation and no load fails.  An abandoned shutdown is not
registered and may close the budget of a later singleton; a failed opening clears the live
flag after it has let go of the lock (`adapter_cleanup_race`), which a stdio process never
does because it has no pool.  The invariant adds to the four parts that no call is in
a phase that tears down outside the lock and no opening has failed (`Tidy`), and that a call
past the selection has its own budget open and not merely none other (`Exact`).

`WriteQueueProofs` proves for every set of writes, with the timeout on or off, every
safety invariant of the run `writequeue`.  The invariant orders the places an entry can be
in: the one being served, then the rest of the batch, then the queue, each in order of
arrival.  `InOrder` then says that whatever arrived before a starting operation is in none of
the places and so is settled; `NeverRanHonest` needs that a rejected entry that is still
in the batch is marked for the loop to skip.

`LedgerProofs` proves for every set of rows, every amount and every length of a behaviour, and
one budget: the types (`LedgerTyped`), memoised listings are what the server would list
(`LedgerListingFresh`), no row is visible that no create made (`LedgerNoPhantom`),
transactions keep their account and the sum of their split (`LedgerTransactionsSound`), what
is answered as done is in the tables (`LedgerSuccessIsReal`) and what is refused for a
missing target has none (`LedgerRefusalIsReal`).  None is inductive alone: a guard on a
stale listing lets an update insert a row, and a transaction dangles only if a guard let its
account go.  `LedgerInv` is the conjunction of fresh listings with what `Sound` says of each
row: it was created, and each transaction is as `TxnOK` says.  The answers follow from it
operation by operation; that the two balances of a transfer keep their sum rests on
`SumTakesOut`, what a sum over the rows loses with one of them.  The hypothesis `OneBudget`
is needed: `ledger_foreign_listing` is the counterexample with two.

Its second half is about `Insight`, for every set of accounts, categories, payees and days,
all amounts, any number of events and any grouping: `ReportsExact` proves `ReportsAddUp`.
`BookInv` says what the recorded rows are (no two have one id; a split is the sum of
its children, which share its day and account; two legs that are both there name each other,
with opposite amounts), and the ids of an event lie above those before, so that none
can take an old leg for its own.  From it: the postings of a range are those of its rows
(`PostingsInRange`), and a register, which lists splits by their total, has the sum of the
postings, because each is in one row (`OwnerIs`, `RegisterIs`).  The account flow is exact
since every posting is in one class (`ClassesAddUp`) and the account at the other end of a
leg is its payee also when the counterpart is lost (`CounterpartIs`); the aggregates and
summaries since a sum over groups is the sum of the rows grouped (`TotalAllGroups`); the
pages since the rows before a row number it (`PositionIs`); and the searches since each
applies the same criteria and a limit as large as the book cuts nothing off (`FirstIsAll`).

`HttpSessionsProofs` proves for every set of sessions, every number of requests, every idle
time-out and every cap on the records: the types, that the sweep spares the active
(`SessionsSweepSparesActive`) and that what a client is told of its session is so
(`SessionsAnswerIsTrue`).  The sweep reads the pool's clock, and that clock is also set back
by initialisations and switches of budgets that serve no request, so the two ages are
different facts; the invariant `Ages` says that an entry is never older than the time since
its session was last served.  For the answers, `Linked` says until a signal which of the
tables agree on a session, `PushedOut` that a failure that is not on record is too old or
was pushed out by younger ones, and `Honest` what each request in progress has read so far
and may still say.

`DomainProofs` proves of `BudgetAcl`, for every set of subjects, names, budgets, sessions and
requests and every lifetime of the caches: the types, `AclAccessWasGranted` and
`AclAnswersAdvance`.
The invariant says of each place that holds an answer how old the fact in it may be:
`Remembered` (what history says still held so many ticks ago), `CachesFresh` (a cached
name or allowance was true its age ago, plus one answer), `RequestsOK` (a request holds
what was true when it was authorised, and what its session has switched to since),
`OneLister` and `Queued` (one listing at a time, and every request that waits has its turn).
Time enters only through ages, so that a tick moves both sides by one.

It also proves of six other modules that callers and maintainers are told what happened.

- `TrainFailure`, for every set of issue numbers, trains and interventions by hand: a failure
  that was filed is on an open issue and a success that the steps contradict closes
  nothing (`TrainFailureIsTrue`).  The reporter closes from a list that it read several
  requests earlier, so the invariant speaks of the list in its hands: that of a failure
  spares one open issue and not the one it counts on (`Spared`), and that of a success
  exists only while nothing is owed and the steps agree (`Corroborated`).  The types
  (`TrainTyped`) bound an issue's count by the number of trains, which needs that a train
  which is still to be counted has not been counted anywhere.
- `TrainStale`, for every set of workflows: an issue is opened only for a workflow that did
  not run or that two pages say did not, and closed only when every workflow ran
  (`StaleAnswerIsTrue`).  The invariant says of each workflow what backs the pass's finding
  about it (`Backed`) and of the pass what backs its decision (`Announced`).
- `BankSync`, for every set of syncs and every time-out: a failure that the listener knows is
  never told as a success, a success is told of no provider that has not answered, and a
  provider's failure only if it, or a sync that was abandoned, failed (`BankOutcomeIsTrue`).
  Its hypothesis `Prompt` is what the code relies on: the provider answers before the settle
  timer ends ("in < 3s in practice", `actual-adapter.ts:3501`).  `BankSyncIsTold`, that a
  time-out hides no outcome either, has the hypothesis `Settle < OpBound` besides: the code's
  defaults make the two equal, and `bank_sync_timeout` shows what comes of that.  The invariant says who holds the lock and
  what has been told by then (`Holds`), that the two timers are in step (`Clocked`), and whose
  rejection a listener may have captured (`Captures`).
- `Connecting`, for every set of files and every number of retries, slots and uses: the cause
  that is named was met or is a reason the cache may still repeat, a time-out without a name
  is the operation's own, or the slots are all held, or an abandoned load kept the call from
  starting, and the version warning comes first
  (`ConnectClientIsTold`).  `Slotted` says who holds a slot, `Dated` how old a repeated reason
  may be in terms of its uses and of the diagnoses that failed since.
- `RuleBook`, for every set of ids, conditions and targets: an upsert makes no second rule of
  the same conditions (`RuleUpsertOnce`), and what is answered as done is so (`RuleAnswers`).
- `BudgetMonth`, for every set of months and categories, every batch and every number of
  attempts: a transfer keeps every month's total (`BudgetMoneyConserved`); after a batch that
  reports success every amount and every carryover flag it names is what its last
  operation on that month and category set, except amounts of categories that do not exist,
  which upstream drops in silence; and a hold reports what it held and leaves the month above
  zero (`BudgetAnswers`).  The type is
  inductive; the work is in the folds.  A batch folds `Apply` over its operations, and its
  attempts fold that over the retries; a month's total is a sum over its categories.

A fold of the community modules is a recursive function on the subsets of a finite set.
`SequenceFacts` proves induction over those subsets, stated for a set of subsets and not for a
predicate (`SubsetInduction`), that such a function exists (`FoldExists`, `LeftFoldExists`),
that it does not depend on the set it is defined on (`FoldsAgree`), and from these what
the proofs use: a sum is a number, takes any element out, depends on the values only, and stays
when two of them trade an amount (`SumFolds`, `SumTakesOut`, `SumSame`, `SumMoves`); it is the
sum of its parts and of its groups (`SumParts`, `SumGroups`), and in a finite set numbered
without repetition every position is that of one member (`PositionIs`).

`RecurringProofs` proves that the report of recurring expenses finds the bills that are paid
(`BillsFound`, which states `BillsAreFound`), for every set of schedules, every day of the
month, price, raise and split, every window and any number of payments.  The heuristic sees only
payments, so the theorem has a hypothesis on the biller: `Punctual` bounds how late a
payment may be by `Tolerance`, the drift that `intervalMatches` accepts: two days for the
rhythms that count days, and seven, ten and fifteen for those that count months.  The bound is
exact: with one day more, a biller who pays late and on time by turns leaves no interval
that matches, and TLC finds the bill that is missed for each of the five.  A short month takes
nothing from it, because the days that it clamps are less apart than that.
A payment also stays in the month it is due, as in the model.  The types (`BillTyped`) need no
hypothesis.

The inductive invariant `BillInv` (`BillInvariant`) says that the payments are in the order of
the schedule, each on its due day or late by no more than allowed (`InTime`), and that their
amounts change at most once, from one price to the other (`Priced`).  From it: the window
keeps a last part of the payments, since dates rise; lanes of close amounts are one lane or,
after a raise beyond the tolerance, two, the earlier before the later; two lanes keep the rhythm
together, so the first round of merging makes them one and later rounds find nothing to join;
every interval of that lane matches the bill's frequency, and no other frequency matches as
many, or as many and earlier; the runs of equal amounts end with the last price; and the date
expected is the next due date, off by lateness and a short month, on which the rule of two
misses rests.  This walks through recursive functions (the filter, the lanes, the rounds of
merging, the first days of the months).  `RecursionExists` shows that such a function exists,
so that the one that is defined is meant, and `UpToInduction` is the induction along it,
stated for a set of positions.  The calendar is that of the assumption: five years of months
with one leap day, payments and reports in the first three.

The assumptions are those on the constants that each module names (`LockAssumption` and its
like): bounds are natural numbers, the sets of categories and transactions are finite or do
not contain the value that stands for "none", and so on.  Every one is evaluated by a run.
Five kinds of theorem have a hypothesis besides: `Calm`, `OneBudget`, `Prompt`,
`Settle < OpBound` and `Punctual`, each met by a passing run; `adapter_cleanup_race`, `ledger_foreign_listing` and
`bank_sync_timeout` show what happens without.

Only model-checked: everything under fairness (starvation, return of every call, that
every write settles, that an abandoned session frees its slot, the fairness part of the
refinement), which the installed provers cannot do, and the combination `DomainTypeOK` of the
types that are proved one by one.  The runs of `Adapter` leave `Stdio` off; its
theorems hold for stdio processes as well.

## Not modelled

Queries (`query-validator.ts`, `query.ts`): decisions on the characters of a text.
Authentication set-up: configuration, and verification by a library.  The legacy
connection (`actualConnection.ts` with `USE_CONNECTION_POOL=false`), the pool's shared
connection and the start-up cleanup: they call the same tracked loader under the same lock.
The tail of `shutdownAll`, after which the process ends.  In the HTTP server, the origin and
bearer checks and the information pages, which keep no state.  The wording of
answers.  The reconciliation of imported transactions, which is upstream's.  The retries of
the creates on transient errors (`actual-adapter.ts:1751`, `1823`, `1964`, `2093`, `2906`): a
create that took effect before it failed may be made twice, which depends on the library
alone.

## Plan

Done: the lock, the adapter, the write queue, the ledger, the ACL, the sessions, the call
path, bank sync, months, rules, the reports, the recurring bills and both reporters with
their proofs.  Next:

1. The branch of a drain that its first entry decides, composed with the pool.
2. The legacy connection as one more path of `Adapter`, with its proofs.
3. Two billers of one payee and account in `Recurring`, which the lanes must keep apart.
