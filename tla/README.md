# Verification of ai-generation-api

TLA+ models, model-checking runs and machine-checked proofs for the generation
service in `app/`: an HTTP API that accepts photo and video generation tasks
from partner servers, charges them in prepaid credits, runs them on Celery
workers and reports each result by a signed callback.  Paths below are relative
to the repository root.

## 1. The system

| Component | Source | State it keeps | Operations |
|---|---|---|---|
| Accepting a task | `app/services/task_service.py`, `app/repositories/task_repo.py`, `app/api/routes/generate.py` | row of `tasks` | `create_task`: find a repetition, create, reserve, refuse or publish |
| Partner billing | `app/services/billing.py`, `app/repositories/billing_repo.py`, `app/models/billing_ledger.py` | `api_keys.balance_credits`, `billing_ledger`, `tasks.price_credits` | `reserve`, `refund`, `commit_charge_audit`, `topup`; reads: `list_ledger`, `usage_summary` |
| Worker task | `app/queues/tasks.py` | status and result of a task, `generations`, `system_events` | `process_generation`, `_fail_or_retry`, `_dead_letter` |
| Broker | `app/queues/celery_app.py` (Redis, Celery) | two queues, unacknowledged messages | publish, deliver, acknowledge, redeliver; time limits |
| Callback delivery | `app/services/callback_service.py` | `webhooks` | `send_callback` with up to five attempts, `_finalize` |
| Pricing | `app/services/pricing.py` | three price tables in memory | `price_for`, `reload` |
| Rate limiter | `app/services/rate_limiter.py` | counters in Redis per scope and window | `enforce` |
| Mode registry | `app/services/mode_registry.py` | one copy of the modes per process | `get`, `list`, `reload` |
| Providers | `app/providers/` | jobs in ComfyUI's own queue | `generate`: upload, submit, poll, download |
| Safety check | `app/services/safety.py`, `image_fetch.py` | none | `enforce_safety` before any generation |
| Storage | `app/storage/` | one file per task | `save` on the local disk or in an object store |
| API keys | `app/api/deps.py`, `app/repositories/api_key_repo.py` | `api_keys.status`, `expires_at` | `get_api_key`, which marks a key expired |
| Prompts, other endpoints, shell, scripts, deployment | the rest | files | reads, writes, wiring |

How they interact.  An API handler is authenticated and rate-limited, checks the
mode, looks for an earlier task with the same `request_id`, asks for the price,
commits the task, reserves the credits in a second transaction and publishes a
message.  A worker takes the message, marks the task as processing, runs the
safety check and the provider, stores the file, and then, in separate commits,
adds the result, marks the task completed and records the charge as final; last,
it calls the source back.  A failed run is published again with a higher retry
count, or ends as failed with a refund and a failed callback.  Handlers and
workers share the database and the broker, and nothing else.

What is hard:

- **interleaving** -- many sessions move the credits of one key, each with a
  SELECT before or after its UPDATE, under READ COMMITTED;
- **atomicity** -- accepting a task is three commits and a publication; ending
  one is three commits and a call; a failure may fall between any two;
- **redelivery** -- with late acknowledgement a task runs again after a lost
  worker, the visibility timeout or a retry published before a crash, on top of
  whatever the earlier run has left;
- **time limits** -- the soft limit raises an exception anywhere in the run, the
  hard limit kills the process, and the message counts as acknowledged; code that
  catches every exception (`load_bytes`, the age check, tenacity) also catches
  the soft limit's;
- **reading twice** -- the input pictures are loaded for the check and again for
  the provider; a key's row is read, found expired and written later;
- **errors in error handling** -- `_fail_or_retry` needs the database that may
  just have failed, and the refund's errors are swallowed;
- **commits that are cut off** -- an exception that ends a call of `commit` does not
  say whether the commit took effect;
- **clocks** -- windows and `created_at` are reckoned by each host's own.

What makes each component correct: *billing* -- balances stay within range, every
credit is accounted for, charges and refunds happen once; *accepting* -- no work
without payment, one task and one charge per `request_id`; *worker* -- every
accepted task ends, with a result or with its credits back, and the source is
told the truth, once; *callback* -- bounded attempts, an honest webhook row;
*pricing* -- the documented priority, never free, one version of the file;
*rate limiter* -- no more than twice the limit around the boundary of two windows;
*mode registry* -- a load takes effect and disturbs no mode that nobody edits; *providers* -- at most one live job per attempt;
*safety* -- it runs before any generation, and its refusal is final; *storage* -- a
task reported with a result has its whole file; *API keys* -- a key that is shut
stays shut until it is renewed.

## 2. Modules

**`Ledger`** is the abstract promise of billing with atomic operations: hold,
refund, top-up, audit on `balance`, `phase` and `audited`.

**`Billing`** is the code at the level of SQL statements.  `balance`, `moves`,
`audit` and `priceOf` are the committed columns and rows; `lock` is the row lock
an `UPDATE api_keys` holds until its transaction ends; `pc`, `row` and `bal` are
a session's place in its operation, the row it will insert and the balance it
has written but not committed.

| Code | Actions |
|---|---|
| `reserve` | `TryDebit`, `AddLedger`, `Commit`, `AlreadyRecorded` |
| `refund` | `CheckRefund`, `Credit` or `CreditOverflow`, `AddLedger`, `Commit`, `AlreadyRecorded` |
| `topup` | `Topup`, `AddLedger`, `Commit` |
| `commit_charge_audit` | `CheckAudit`, `ReadBalance`, `AddAudit` or `AuditRecorded`, `CommitAudit` |
| a lost connection | `Crash` |

Any operation may start for any task at any time: the callers' order (a refund
only after a failure) is `Generation`'s business, so what is shown here does not
depend on it.  The movements of a key are kept in commit order, the order
in which the key's lock is held; their dates (`created_at`) are those of the hosts
that write them and may be in another.  Audit rows take no lock and are kept
apart, in `audit`.

**`Generation`** is the life of a task.  `apc` and `answer` are the handlers;
`status`, `balance`, `charge`, `audited` and `results` the tables; `queue` the
broker; `wpc`, `wmsg`, `wretry` and `wown` the workers; `delivered` what the
source has been told, one entry for a call however many of its POSTs arrive;
`runs` counts the runs of each task that got as far as its generation, whether or not
it was cut short, `returned` how often the broker gave out a message of it again,
`faults` the faults that struck it, and `dropped` says what a fault has dropped of it
for good: a run, a refund, a callback.
Billing calls are single steps here, which `LedgerSpec` of `Billing` justifies.

| Code | Actions |
|---|---|
| `create_task` | `ReturnExisting`, `NoneExisting`, `Reject`, `CreateTask`, `Reserve`, `Refuse`, `Enqueue`, `HandlerFails` |
| `process_generation` | `Deliver`, `MarkProcessing`, `Generate`, `RecordGeneration`, `MarkCompleted`, `Audit`, `SuccessCallback`, `Ack` |
| `_fail_or_retry`, `_dead_letter` | `Retry`, `MarkFailed`, `Refund`, `FailedCallback` |
| faults | `Crash`, `Redeliver`, `SoftLimit`, `HardLimit`, `Raise`, `Swallow`, `Escape`, `CallbackLost` |

A task is named by the POST that created it.  `Generate` stands for the safety
check, the mode, the prompt, the provider and the storage: it succeeds or raises
an error that may be retried or not.  Celery is external: a message stays
unacknowledged until the task function ends; a lost worker puts it back
(`task_reject_on_worker_lost`); a function that ends with an exception, or at
the hard limit, is acknowledged, because `task_acks_on_failure_or_timeout` has
its default value; `self.retry` publishes a new message and then acknowledges
the old one.  `Redeliver` happens although the visibility timeout is longer than the
hard limit, because a message counts as delivered when a worker process reserves
it: a retry waits for its countdown, and perhaps for another run, before it begins.

**`BillingReports`** adds to `Billing` the reads of a partner and of an
administrator, while sessions go on: `report` is the report being made, `rpc` its
next `SELECT`.  `get_usage` is `GetUsage`, `SelectEntries`, `SelectSummary`;
`admin_view` is `AdminView`, `SelectBalance`, `SelectSummary`, `SelectEntries`.
`CreatedAt` is the date of each movement, any function of its place: several
hosts insert them and `app/models/base.py` dates them by the host's clock, so that a
refund may be dated before its hold.  A period is two dates, either of which may be
left out (`NoDate`), and its rows need not follow each other in the ledger.  Audit
rows have no place among the movements, so the list leaves room for any number of
those there are (`adjusts`).

**`Pricing`** is the registry of prices of one API process, with no lock, so that
a step is one read or one assignment of an attribute.  `disk` is the file,
`tables` the three tables in use, `rpc` and `rfile` each reload, `pc`, `ov` and
`price` each computation; `quiet` records that no table was assigned since a
computation began.

| Code | Actions |
|---|---|
| `reload` | `ReadFile`, then `Assign` three times |
| `price_for` | `Begin` (overrides of the key), `ReadKeys`, `FindMode`, `ReadMode`, `FindType`, `ReadType` |
| people who edit `config/pricing.yaml` | `Edit` |

**`RateLimiter`** is `enforce` on counters in Redis: `Hit` counts the next of a
request's identifiers and refuses or goes on, so that a request that is refused
has still been counted under the scopes before.  `Tick` is time, in ticks as short as
one likes; a window is `Window` of them.  A replica takes the time of day,
fractions included, from its own clock and calls Redis later: the window it
names may be that of `MaxLag` ticks before.  Redis expires the keys.
**`Admission`** extends it with what comes first: `GetKey` looks
the key up and lets the request arrive at the limiter, refuses it, or finds the key
expired; `SaveExpired` is the UPDATE that then writes this into the row.
`Suspend` and `Renew` are administrators, who edit the row meanwhile.  `shut` and
`outrun` are history.

**`Reporting`** is the abstract promise of a run's reports to the source: one at a
time, a failure never before a result, each with a row that is closed at most once
and as delivered only if the source was told; and the run ends.  A report of a
result may be left for that of a failure also when its row is closed.
**`CallbackDelivery`** is what one run of `process_generation` reports, in seconds
against the two time limits.

| Code | Actions |
|---|---|
| `_send_success_callback` / `_dead_letter` | `Complete` / `Fail` |
| `send_callback` | `Insert` is the commit of the row, `Post` one attempt, `Sleep` the wait before the next; `Escape` an exception that leaves the function |
| `_finalize` | `Finalize` |

`Insert` and `Finalize` are commits (`Commit`): each takes effect or not, and is then
gone on from, or left by an error of the database, the soft limit or the hard limit; so
the soft limit may come after `_finalize` has written `delivered`.  A POST may last any
of `Durations`: httpx limits each of its phases (connecting, sending, each
read) to 30 seconds and not their sum.  The soft limit's exception is raised once,
wherever the run is.  Inside an attempt tenacity catches it like any error; in a
wait or a commit it leaves `send_callback`; the run then reports a failure, now
without a soft limit ahead.  The hard limit kills the process.  `posted` and `cut`
are history: how long a call was in its POSTs, and what ended it early.

**`ModeRegistry`** is the copies of the modes.  `copy`, `up`, `imported` and the loaders'
`todo`, `acc` and `lpc` are the registry and its threads in each process; `dir` is the
directory of modes and `models` whether `models.yaml` can be read.

| Code | Actions |
|---|---|
| `registry.reload` | `Read` one file, `Swap` the result in |
| its callers | `Reload` (an administrator), `Start` (a process begins), `Import` |
| `create_task` | `Accept`, then `Import` or nothing, `Answer` |
| people and the platform | `Edit`, `Restart` |

`Import` is the line of `create_task` that imports `app.queues.tasks`, whose body
reloads the registry of the process it is imported by.  In an API process
that happens in the first request that gets so far, so it may overlap an
administrator's load; there is no lock between them.  `ModelsConfig.load` lets the
parser's exception pass, so a load does not begin without a readable `models.yaml`:
the request fails, the import is tried again by the next task, and a process
that is started ends.  A file may be gone or broken when it is read, and reading it
may fail for a moment.  `edited`, `skipped`, `lost`, `since` and `fresh` are history.

**`Attempt`** is the `try` block of `process_generation` call by call, run by several
workers at once for one task, as redelivery may have it.  `pc`, `elapsed` and `out`
are the runs; `conf` the settings, which differ between behaviours; `page` what each
URL leads to, which people `Change`; `file` the task's file.  `seen` and `used` are the
pictures that the check and the provider of a run have loaded: allowed, refused,
not there, or (by the check) not analysable.

| Code | Actions |
|---|---|
| `enforce_safety`, the three checkers, `load_bytes` | `Check` (`InsightFace`, `Unchecked`) |
| `registry.get`, `build_prompt` | `Prompt` |
| `ComfyUIProvider.generate` | `Upload`, `Submit`, `Poll`, `GiveUp`, `Download` of module `ComfyProvider` |
| `MockProvider.generate` | `Draw` |
| `LocalStorage.save` / `S3Storage.save` | `Open` and `Write` / `Put` |
| the result, the status, the callback | `Report` |
| a time limit or a lost worker between the timed calls | `Cut` |

**`ComfyProvider`** has, for `Attempt`, the provider's steps, with `waited` as in the
code and `elapsed` the true time since the run began, which counts the requests
too; and ComfyUI, which is external: `Start`, `Finish` and `Restart` of jobs that are
in its memory only.  `Takes` says what the two time limits make of a step that
lasts; `TakesLoading` that code which catches every exception may lose the soft
limit's.  What an age estimator would say of a picture is part of the picture.  The
mask and the driving video, which are loaded as the pictures are but never
checked, are left out.

The `MC` modules give the constants their values.  `BillingProofs` (with
`BillingReports`), `GenerationProofs`, `AttemptProofs`, `AdmissionProofs`,
`CallbackProofs`, `ModeRegistryProofs` and `PricingProofs` hold the proofs, and
`Sums` the lemmas several of them use.  The definitions marked `mutant` are plausible
mistakes in the operation that follows; nothing uses them, and each breaks a
property when it takes the place of that operation.

## 3. Runs

| Run | Configuration | Shows |
|---|---|---|
| `billing` | 1 key, 2 tasks, 3 sessions, fair | `BalanceInRange`, `LedgerChain`, `ChargedOnce`, `AuditAfterCharge`; `LedgerSpec`: the statements implement `Ledger`; `OperationsEnd`: no deadlock, no lock left behind |
| `reports` | 1 key, 2 tasks, 2 sessions, 1 report | `Explained`: the parts of a report are of different moments, and its rows dated by hosts whose clocks differ, but one ledger explains them |
| `generation` | 2 POSTs of one request, 2 workers, 1 retry, any 2 faults | `Settled`, `EndIsFinal` for a task that no fault strikes: it ends in one of the three ways of the contract, whatever happens to the other; `PaidBeforeWork`, `MoneyMatches`, `CallbackBacked` whatever fails; `AttemptsBounded`: only a message given out again by the broker adds attempts; `Recovered`: only faults that end a run leave a task half done, and a refund or a callback that fails takes nothing else with it, except that a refund may take the callback |
| `generation_crash` | 1 POST, 2 workers, 3 lost workers, fair | `Recovered`, `AcceptedTasksEnd` |
| `pricing` | 1 handler, 2 reloads, edits at any time | `PriceIsReference`: the documented priority; `Configured`: never free, never made up |
| `admission` | 2 handlers, 1 key and 1 user, 3 requests, lags of up to half a window, 2 edits of the key | `TwiceAtMost`: twice a limit in a window less the lag; `RefusedForRecent`; `ShutStaysShut`: a key once shut admits nothing until it is renewed; `ExpiredForCause` |
| `callback` | the limits and the five attempts of the code, fair | `HookHonest`: the row can be trusted, whatever was cut off; `Undisturbed`: a call that a limit cuts off began late or spent long in its POSTs; `ReportsKept`: the run implements `Reporting` and ends |
| `modes` | 1 process with 2 threads that load, 2 files, 2 edits | `LoadApplies`: the load that returns last, if it began after the last edit, has taken effect; `UntouchedServed`: no load disturbs a mode that nobody edits |
| `attempt` | 2 runs of one task with 2 pictures, 6 settings, 1 change of a page | `UsedAfterCheck`: the provider gets pictures only after a check that refused none; `ReportedWhole`: a reported task has its whole file; `LeavesNothing`: a run that learns how its job ended leaves no job |

Three runs find a disagreement between the code and what its documentation says;
`PROJECT.json` quotes the lines:

| Run | What happens |
|---|---|
| `repeat` | Two POSTs with one `request_id` at the same time both find no task; both tasks are charged. |
| `stands` | A worker is lost after the refund and before the acknowledgement; the next run succeeds, so the task is completed and refunded. |
| `unchecked` | One of two pictures fails to load for the age check; the other is allowed, and the provider loads and uses both. |

Other differences between code and documentation can be read off the models,
whose properties are stated so as to hold in spite of them:

- a handler that fails after `task_repo.create` (`HandlerFails`) leaves a task, perhaps
  charged, that is in no queue, and a repetition of its request is answered with it;
- an exception outside the `try` block of `process_generation` (`Escape`) is
  acknowledged and leaves the task as it is, charged; a refund that raises
  (`Swallow`) is logged and never repeated, and if it has left the session unusable
  (a statement of the transaction or its flush failed and nothing rolled it back)
  the next statement, `task_repo.get`, raises too: the failed callback, which the
  comment at `app/queues/tasks.py:173` keeps apart from the refund, is not sent;
- a run that has lost its message to another worker (`Redeliver`) may set an ended
  task back to processing and then be lost itself (`Crash`): nobody runs it again;
- the soft limit inside `load_bytes` or the age check counts as a picture that is
  not there, and the run goes on with only the hard limit ahead;
- a local file that an earlier run has reported is emptied by the next run's
  `open(path, "wb")`, and stays damaged if that run is cut off then;
- a key that is renewed between the SELECT that found it expired and the UPDATE
  that says so is expired again, with a date in the future;
- the soft limit during the success callback ends a completed task as failed,
  with its credits back;
- the soft limit, or an error, after the commit of `_finalize`
  (`app/services/callback_service.py:83`) and before the end of the `try` block
  (`app/queues/tasks.py:130`) has a failure reported after a result whose row says
  delivered: `HookHonest` still holds of both rows;
- an audit row may show an older balance than the one at its commit, for it takes
  no lock: `AuditAfterCharge` says that the key had it at the charge or later;
- a call may be cut off with attempts left (`Kills`, or `Strikes` in a `Sleep` or a
  commit), and its row stays pending; five POSTs of 105 seconds
  outlast the soft limit however early they begin;
- what a picture's URL leads to may change between the age check and the provider's
  own load (`Change` in `Attempt`), so that a picture nobody checked is used, although
  `app/services/safety.py:3-4` and `docs/INTEGRATION.md:284` say that the check comes
  first and blocks: `UsedAfterCheck` speaks of what the check has loaded;
- two overlapping reloads of the prices may leave tables of two versions of the
  file, and a reload between the test for a mode and the access to its price
  makes the access fail (`KeyError`);
- the rate limiter's windows are fixed, not sliding: twice the limit may pass around
  a boundary, which is what `TwiceAtMost` allows, and that only in a window less
  the lag.  In a whole window three limits may pass: with windows of 60 seconds,
  one limit at 60.3 by a replica half a second behind, which counts it in the window
  before, one after that in the window itself, and one at 120.1 in the next.  TLC finds
  this in the run `admission` when `TwiceAtMost` is stated of a whole window;
- a reload of the modes reaches one API process and no worker, which keeps the modes it
  was started with, while `docs/HOWTO_MODELS_AND_EDITING.md:190`,
  `docs/VIDEO_API_INTEGRATION.md:139` and `app/services/mode_registry.py:4-5` offer it as
  the way to do without a restart: a task accepted under a new mode, or a
  mode whose type has changed, may fail in a worker or run as another type.  No
  property is stated of API and worker together, for nothing in the code
  relates their copies;
- of two overlapping loads of one process -- an administrator's and the import's, or two
  administrators' -- the one that read older files may assign last, and they are
  served until the next load: `LoadApplies` is about processes whose last load to
  return began after the last edit;
- a mode whose file cannot be read for a moment is dropped until the next load (`lost`);
- a ComfyUI call that ends without its job's entry leaves the job in the queue;
  and as `TASK_SOFT_TIMEOUT` (540) is shorter than `COMFYUI_TIMEOUT` (600), a slow
  generation ends by the soft limit, which is not retried.

**Bounds.**  `billing`: two prices that one top-up cannot both cover, a column
that holds at most 5 credits and no top-up of a key after 2 movements
(`MaxMoves`); three sessions are needed for two that race and a third whose
commit comes between.  `reports` allows a top-up after a charge (3 movements), so
that a refund overflows the column there.  Operations on different keys share no
row, and the proofs below are for any set of keys.  `generation`: `p1` and `p2`
carry one `request_id` and the key's 4 credits do not pay for both, so
repetitions, refusals and concurrent charges all happen; `p3` of
`generation_crash` has no `request_id`.  `Faults` says which faults a run has and
`MaxFaults` how many: two suffice for a fault in the handling of another, or for a
fault of each task, three for a worker lost in each of three successive deliveries.  The sets of workers,
of `reports`' sessions, of handlers and of reloads are symmetric, and runs that
check liveness do not use symmetry.  `generation` and `generation_crash` have
finitely many POSTs and really stop, so deadlock is not checked there.

`reports`: the list holds two rows (`Limit`), fewer than there can be, and a
period (`Periods`) may begin or end in the middle of the ledger; `MCCreatedAt` dates the
third movement, which may be a refund, before the second, and two alike; one report
(`MaxReports`) suffices, as reports change nothing that another reads.
`pricing`: between the files, layers are missing, are prices, truncate to zero or
are text, and the two reloads may hold different versions.  `admission`: a window
of 4 ticks and 9 moments (`MaxClock`) contain two boundaries, three windows and an
expired counter, and a lag of 2 ticks (`MaxLag`) lets three counters be used in one
moving window; 3 requests (`MaxRequests`) exceed twice the user's limit of 1 and
the key's limit of 2; the key's date (`Dates`) is within that time or after it, and
two edits (`MaxEdits`) suspend and renew it or renew it twice.  `callback`: a POST
takes 30 seconds, after which httpx gives up on one phase, or 75 (`Durations`), a commit
one second (`Saving`), and the generation ends (`Ends`) early, at the last moment
for five long POSTs and one second later, and near the soft limit.  `modes`: two
threads of one process are an administrator's load beside the import's, or two
administrators'; with two files and two edits (`MaxEdits`) a load may see one
file before and the other after an edit, and both files may claim one mode; an
edit may also break `models.yaml`.  One process is enough, for processes
share nothing but the files, which none of them writes; the proofs are for any.
`attempt`: a step takes 0 or 2 intervals (`Delays`), so that limits strike in the
middle and are passed by; the provider's timeout is 2, the soft limit 3 and the hard
one 5, so that runs end in each of the three ways; one run of each worker
(`MaxCalls`) makes two that overlap or follow each other, and one change of a page
(`MaxChanges`) comes before, between or after their loads.  `unchecked` needs no
change.  Deadlock is not checked in `admission`, `callback` and `attempt`, which stop
at the last tick, with the run and after the last run; it is in the others.

**Fairness.**  `Billing`: strong fairness of each session's next statement;
PostgreSQL queues the transactions that wait for a row, so a waiting one is not
overtaken for ever.  Beginning an operation and dying are not fair.
`Generation`: weak fairness of each handler, of delivery to each idle worker and
of each worker's next step; the time limits bound every call a worker waits for,
and one worker is never starved by another because a message is taken once.
Faults are never fair.  `CallbackDelivery`: weak fairness of its next step, for the
computed waits and the two limits bound whatever it waits for.
The other modules have safety properties only.

## 4. Proofs

The theorems hold for all values of the constants that satisfy the named
assumptions, which TLC evaluates in every run of a module that extends theirs.
Each theorem about an invariant has an inductive strengthening, which the initial
states satisfy and every step keeps.

**`Sums`** has what the other modules cite and the library does not state: an
induction over the natural numbers on sets instead of predicates, and how the sum
of a function over a finite set changes when one value or one member does.  Sums
are folds; their equation is proved there from the definition, by such an
induction on the size of the set.

**`BillingProofs`** -- any keys, tasks, sessions, prices and column width.
`TypeCorrect`, `BalanceStaysInRange`, `LedgerAccounts` (`LedgerChain`),
`ChargeIsOnce` (`ChargedOnce`) and `AuditsCharges` (`AuditAfterCharge`).
None of the four invariants is inductive.  `BillingInv` adds what a transaction in progress
guarantees: `LockInv` -- a session that has written a balance holds the key's
lock, so the committed balance is still the one it started from; `RowInv` -- the
row a session will insert has the price and the key of its task, and no committed
row of its type exists; `MovesInv` -- a price is kept only where its hold is among
the movements.  Only `CommitInv` has to look into the movements, for only `Commit`
adds one.  `AuditRead` carries what a session has read for its audit row to the
commit: that the task was charged (`EntriesInv`), and a balance the key had since, which
stays one that it had.

`ImplementsLedger` is `Spec => LedgerSpec`: the statements of any number of
sessions, however they interleave and whichever dies, are the atomic operations of `Ledger`.
`CommitIsAtomic` shows that a commit is the operation its row names, with the
amount and the guard of that operation, although both were decided when the
transaction began; `PricesInv` and `EntriesInv` say what is still true of that
decision: prices that are kept are those of the tasks, and only a held task is
audited.  Every other statement leaves balance, phases and audits alone.

`ReportTypesCorrect` and `ReportsExplained` (`Explained`) are about any limits,
periods and numbers of reports, and any dates of the movements.  `Telescope` is the arithmetic: the first
movements of a ledger add up to the balance after them, however many they are.  `ReportInv` says what a report shows at each of its SELECTs and that
it stays true as movements are added: they come after those it has counted.

**`GenerationProofs`** -- any finite sets of requests and workers, any keys,
credits, prices, number of retries, and any faults in any number.  `Frame` is the
lemma the others rest on: every step that changes anything of a task is a step of
the task's handler, of a worker that has its message, or a delivery of it.  It
lets each invariant be proved for one task at a time.

- `PaidCorrect` (`PaidBeforeWork`): `Unpaid` -- an uncharged task is in no queue,
  with no worker, and its handler has not come to the publication.
- `MoneyCorrect` (`MoneyMatches`): a task is uncharged until its handler has
  reserved (`Uncharged`), so each step changes one balance and one term of a sum.
- `BackedCorrect` (`CallbackBacked`): `Backed` -- without a result there is no
  completed callback, no audit and no worker past the point where the result is added.
- `AttemptsCorrect` (`AttemptsBounded`): a potential.  `AttemptsLeft` -- generations
  begun, plus all that the messages in the broker and with workers may still
  begin, are at most `MaxRetries + 1` for the request and for each message
  the broker gives out again.  Retries move potential from a worker to the broker; a
  lost worker and the visibility timeout add to it, and no other fault does.
- `SettledCorrect` (`Settled`) and `EndCorrect` (`EndIsFinal`): `Clean` -- a task
  without a fault is in one of three places: nowhere, as one message in the
  broker, or with one worker in a stage that says what its rows are; `Exists` -- a handler past
  its commit has a row.  That no second message exists is what makes the end final.
- `RecoveredCorrect` (`Recovered`): `Recovering` -- while no run was dropped, a
  task that has not ended is on its way (`Coming`, `Goes`), and so are the refund
  and the callback that an ended task is owed.

**`AttemptProofs`** -- any workers, URLs, settings and limits with `Soft <= Hard`.
`RunMoves` says what every step of a run does; then `JobInv` (what the place of a run
says of its ComfyUI job) gives `NothingLeft` (`LeavesNothing`), `PicturesInv` (past the
check, what it has seen allows the pictures to be used, and none is used before) gives `CheckBeforeUse`
(`UsedAfterCheck`), and `FileInv` gives `ReportedFile` (`ReportedWhole`).

**`AdmissionProofs`** -- any finite set of handlers, any identifiers, limits,
window and dates; a request names each identifier once.

- `TypeCorrect`: that counters stay within the number of requests needs
  `CountInv`, which counts the handlers that have yet to count an identifier.
- `ShutKeysStayShut` (`ShutStaysShut`) and `ExpiryHasCause` (`ExpiredForCause`):
  a key that was shut is not active; a handler about to write a key as expired has a
  reason that later edits do not undo.
- `RefusalsAreRecent` (`RefusedForRecent`): `HitsInv` -- a counter counts no more than
  the hits in its window and the lag after it.
- `TwiceTheLimit` (`TwiceAtMost`), for any window and any lag: `PassInv` -- what has
  passed under a counter has passed within its window and the lag after it, and while
  it lived, so a span as long as a window less the lag meets at most two counters.

**`CallbackProofs`** -- any time limits, number of attempts, and finite sets of
durations.  `Kinds` sorts the steps: a call begins, is given up, goes on, or is
closed.  `CallsInv` says what each place of the run means for the two calls and
their rows, and contains `HookHonest` (`HooksHonest`), whichever commits took effect.  `KeepsPromise`: every step
is a step of `Reporting` or none, which is all of `ReportsKept` but that the run
ends.  `UndisturbedCalls` (`Undisturbed`): `TimeInv` -- a call has
taken its POSTs, the waits between them and two commits, and nothing else.  The
wait before attempt `k + 1` is a power of two that is cut to between 2 and 60 seconds;
the provers have no law of powers, so the first six are computed and the others are
known only to be at most 60, which is what `Pause` says.

**`ModeRegistryProofs`** -- any processes, threads, files, modes, tasks and edits.
`ServesUntouched` (`UntouchedServed`): `UntouchedInv` -- a load under way cannot have
missed a mode whose file nobody has edited.  `LoadTakesEffect`
(`LoadApplies`): `LoadInv` -- what a load that began after the last edit has read so far
is what the files that it has read say.  Both hold for any number of loading threads
of a process, which share `copy` only: a thread's list and what it has read are its own.

**`PricingProofs`** -- any handlers and reloads, files and overrides.
`PricingTypes`, `PriceFollowsPriority` (`PriceIsReference`), `NeverFree`
(`Configured`).  `FromFiles`: every entry of the tables, whatever mixture of
versions they are, is an entry of some file.  `RuledOut`: what a computation has
passed over is still absent from the tables while they are `quiet`, and what it has
found is still there.

**Only model-checked.**  `OperationsEnd`, `AcceptedTasksEnd` and the end of the run in
`ReportsKept`: liveness under fairness is out of the provers' reach.  The three
runs that expect a violation have nothing to prove.  Every other property of a run is
stated by a theorem.

## 5. Not modelled

The verdict on a picture, which is an external model's.  The text of prompts and
workflows, the pictures themselves, and what the mock provider draws.  Payload
signatures, the hash of a key, the internal JWT, uploads and read-only endpoints:
decisions on one request, single reads or single writes with no protocol between
steps.  Logging, metrics, `scripts/`, migrations and deployment.  The `progress` and
`retries` columns and the task logs, which no decision reads.  What `models.yaml`
says, beyond whether it can be read; a modes directory that is gone altogether
(`app/services/mode_registry.py:68-71`), which empties a copy at once and logs an error.
`BILLING_ENABLED` off: nothing is charged and the rest is unchanged.  `health` of the
providers, which nothing calls.  How long a message waits in the broker or in a
worker before its run begins: `Redeliver` may happen at any time instead.

## 6. Plan

1. done: `Ledger`, `Billing`, `BillingProofs` (types and the three invariants),
   `Generation`;
2. done: `CallbackDelivery`, `Pricing`, `PricingProofs`, `ModeRegistry`,
   `RateLimiter`, `BillingReports`;
3. done: `Admission`; `Attempt` with `ComfyProvider`, safety check and storage;
   `Reporting`, which `CallbackDelivery` implements; faults per task in
   `Generation`;
4. done: the proofs of section 4: every safety property of the runs, and the
   safety part of both refinements;
5. open: deadlines of the two time limits in `Generation` itself, which has them as
   faults at any moment.
