# quant-foundry in TLA+

A specification of the parts of quant-foundry that have to be right when
processes race and die, and of the engine whose numbers everything else is
about: the service that accepts backtests, hands each to one supervisor, runs it
in a container and records one outcome; the same queue over files; the scheduler
of collection and update tasks; the file based current store; and the order
engine. The modules are written from the code under `src/`; `PROJECT.json` maps
each definition to its lines.

## 1. The system

quant-foundry is a platform for Chinese market data and backtests. A Python
backend (FastAPI, SQLAlchemy, PostgreSQL) takes requests, a trusted *runner*
process starts workers in Docker, a Rust engine (`qf-core`) simulates a
strategy inside the worker, and a file based *current store* holds market data.

| part | code | state it keeps | operations |
|---|---|---|---|
| run repository | `backtest_service/repository.py` | rows of `s3_runs` (status, fence, token, lease, cancel flag, attempt identity, progress), batches, result pointers | submit, submit_batch, retry_failed, request_cancel, cancel_batch; claim, work, bind_attempt, heartbeat, running, progress, commit_outcome, expired, recover_stopped |
| local run queue | `backtest_service/local_queue.py` | one JSON file per run and per batch, a roster `active.json`, a policy | the same port over files and `flock` |
| runner supervisor | `backtest_service/supervisor.py`, `app/runner` | `self.tasks`, attempt directories, a heartbeat and a control thread per task | run_forever, step, \_start, \_finish, stop |
| worker process | `backtest_service/process.py` | a container per run, under a deterministic name with claim labels | start, stop_remove |
| data gateway | `backtest_service/data_gateway.py` and `formal_*` | an admitted context, stream credits | prepare, serve, finalize |
| run service, history | `service.py`, `router.py`, `results.py`, `history/` | none of their own; result directories | submit, batch, cancel, read results |
| task scheduler | `scheduling/` | scheduled tasks, task runs, a thread pool and its futures | enqueue, dispatch, claim, heartbeat, finish, interrupt, lost runs, continuations |
| current store | `data_store/` | dataset catalog, shard files, garbage, issue sets, locks | upsert, replace, record_problems, commit, read, cleanup, recover |
| ingestion, sources | `data_ingestion/`, `data_sources/` | jobs' intermediate files and rows | fetch, normalise, store |
| strategies, instruments, calendars, accounts | packages of those names | versioned rows | CRUD with revisions, fact selection |
| engine | `engine/crates/qf-core` | orders, reservations, cash, lots, corporate actions, clock, result file | event loop, matching, settlement, sealing |
| clients | `sdk/`, `frontend/` | none | HTTP |

How the parts interact:

- The API processes and every supervisor share only the table of runs. Each
  repository operation is one transaction; those that look at the whole queue
  take an advisory lock, the others the row.
- A supervisor claims the oldest waiting run that fits: the row gets a new fence,
  a fresh token and a lease. From then on everything done for the run carries
  that claim, and the repository compares it with the row.
- The container of a run has one name, whatever the attempt; its labels name the
  claim. Attempt directories are named by the claim.
- The worker speaks to the control thread of its task over a socket; each frame
  is checked against the claim.
- `_finish` stops the container, seals the result, and commits outcome and
  pointer in one transaction, a success inside the data gateway's own
  transaction, which checks that the data used has not changed.
- A claim whose lease ran out keeps its reservation until some supervisor has
  confirmed that the container is gone; then the row is queued again, or
  cancelled if that was asked for.
- Every application process has a scheduler. They share the tasks, the task runs
  and the source rows, whose locks make enqueueing, dispatching and switching a
  source atomic with respect to each other; editing a task, ending a run,
  restarting and the heartbeat supervisor take none of them.
- Handlers of tasks update the current store. Its writers and readers are
  processes that share a database catalog, a directory of immutable files and two
  file locks per dataset.
- The engine is one sequential loop; what is open is what a strategy asks for in
  each of its callbacks and what the market shows.

What is hard here: claims of any age meet the same row; a supervisor may crash
between any two statements, with directories, containers and retained results
left behind; Docker requests, writes and commits may take effect without a
reply; leases are compared with clock readings taken earlier; retries, batches
and cancellations overlap; a dispatch commits what it looked up before tasks were
edited and runs ended; files and catalog never change together; targets, partial
fills, corporate actions and the close of a session meet in every order.
`PROJECT.json` lists these hazards at their lines, with the properties that cover
them.

What makes each part correct:

- repository: one outcome and one result per run, of its last claim; cancelled
  wins; no claim while a live one exists; held rows fit the budget; queue limit;
  one live attempt per batch item;
- supervisor and process: a worker runs only under a live reservation; a published
  result was retained and no worker that writes it is alive; directories are
  reclaimed; every run ends;
- local queue: the same promises, and no file state between two writes breaks
  them;
- scheduler: a run is executed at most once and its row tells the truth; the
  limits of queue, task, local updates and threads hold together; nothing
  queued and no intent to continue is forgotten over a restart;
- current store: a table that changes by whole inputs and is read at one instant;
  whoever is told of success has written; a crash loses no committed data and leaks
  no file for ever;
- engine: cash, shares and dividends are conserved and nothing is used twice;
  promised targets stay covered; nothing trades on what was already seen.

## 2. Modules

| module | models |
|---|---|
| `RunLifecycle` | the promise: what a run goes through, whoever executes it (`contracts/run_service.md:31-36`) |
| `RunRepository` | `DatabaseRunRepository`: one action per transaction |
| `RunnerSupervisor` | any number of supervisors with workers, containers, directories and crashes; extends `RunRepository` |
| `LocalRunQueue` | `LocalRunRepository`: the same port over files, one write at a time |
| `TaskScheduler` | any number of application processes that enqueue, dispatch, execute and end task runs |
| `DataTable` | the promise of the current store: a table per dataset |
| `CurrentStore` | writers, cleanups and readers of the current store over catalog, files and locks |
| `Account` | the engine's account: cash, lots, reservations, fees, corporate actions, as operators |
| `OrderEngine` | one run of the engine: driver, order manager, bar matcher, the strategy's calls; extends `Account` |
| `MC...` | values of the constants for TLC |
| `FunctionSums` | lemmas: sums over finite sets |
| `RunRepositoryProofs`, `RunnerSupervisorProofs`, `LocalRunQueueProofs`, `TaskSchedulerProofs`, `CurrentStoreProofs`, `AccountProofs`, `OrderEngineProofs` | theorems |

### RunRepository

`rows[r]` is the row of run `r`; ids are in the order of insertion, which stands
for `created_at`. `pointers[r]` is the fence of the attempt whose result
`s3_run_results` points to, 0 for none. A token is a `uuid4` made by one claim,
so it is named by that claim's fence, 0 for NULL.

Time is relative: `lease` is `lease_until` minus the clock, and `Tick` lowers
every lease. A caller that read `time.time()` before its transaction compares at
a reading `lag` ticks old, so it sees the lease as `lag` longer. Where the code
passes `now` in (`claim`, `heartbeat`, `recover_stopped`) the model has a `lag`
parameter; where the repository reads the clock itself (`_valid` without `now`)
it has none. Leases at or below `-MaxLag` are one value.

Each action is a transaction of the same name. Refused calls (a stale claim, a
repeated idempotency key, a full queue) change nothing, so they are the negation
of the guard. `cancel_batch` is several transactions, so it is several
`RequestCancel`. `UseClaim(c)` is anything a holder of claim `c` may call, at any
later time: the repository is checked against every use of claims, not only the
supervisor's.

### RunnerSupervisor

`main[s]` is the main thread of supervisor `s`: a program counter and the locals
that matter (the claim at hand, the rest of the loop, the age of the first
`time.time()`, the outcome being finished). One action per statement that
touches the database, the daemon or the work root:

| code | actions |
|---|---|
| `step`, first loop | `StepBegins`, `ReapNext`, `StopInspect`, `StopAct`, `ReapTask`, `ReapRow` |
| `step`, second loop | `TendNext`, `Beat`, `Look`, `Watch` |
| `_finish` | `FinishBegins`, `StopInspect`, `StopAct`, `Seal`, `CommitStep`, `CommitCancelled`, `Clean` |
| `step`, claim; `_start`; `WorkerProcess.start` | `ClaimNext`, `Work`, `Mkdir`, `Bind`, `Prepare`, `Check`, `Create`, `Check2`, `Boot`; on error `StopInspect`, `StopAct`, `Undone`, `GiveUp` |
| `run_forever`'s finally, `stop` | `Raise`, `TendNext` with `stopping`, `Exit` |
| threads of a task | `HeartbeatThread`, `WorkerBoots`, `WorkerReports`, `WorkerFinishes` |

`box[r]` is the container that has the run's name, `dirs` the attempt
directories, `kept` the retained results. `Crash` forgets the process and leaves
those; `Restart` is the container's restart policy. `stop_remove` inspects by
name and acts by identity: `Pinned` says the inspected container is still there.
With `DockerFaults` any request may fail, and a create, start or delete may take
effect although its reply is lost. `publish()` runs inside the commit: with
`LateRollback` the final data check may raise after it, and a crash may fall
between it and the `COMMIT`, so both leave a retained result without a pointer.
The heartbeat of a task goes on through the stop of a start's error path.

Abstracted: row contents other than those columns; the files inside an attempt
directory; frames of results, logs and metrics; the reason of a failure; a
database that fails (other than the late check of the data gateway, with
`LateRollback`); replaced paths, which the code refuses; control or gateway
threads that do not end within their five seconds. `created_at` is the start of
the transaction, and the model orders rows by commit.

### LocalRunQueue

`rows`, `batches` and `roster` are the files `<run>.json`, `<batch>.batch` and
`active.json`; `kept` holds the claims whose result `publish()` has retained. An
operation takes the lock and knows from there on what it will write, so the
action of its name does the first write and leaves the others in `pending`;
`Continue` does the next one. `GiveUp` is a crash, or an `OSError` from a write:
the lock is released and the rest is lost. While `pending` is not empty nobody
else has the lock. A single write is atomic, as `_write` replaces and syncs the
file. Run ids are numbered as they are drawn, so a run of an interrupted
operation leaves a gap; `Known` is what a client can name after that.

Left out: `policy.json`, refused links and replaced roots, the size limit of a
file, reads that change nothing (`work`, `status`, `batch_status`, `expired`), and
the owner of a run.

### TaskScheduler

`rows` are `task_runs`, numbered in the order of their creation, which is also
the order of `available_at`; `state` and `source` are the tasks' states and the
switch of the data source; `intent` is what `data_store_entry_status` asks to have
continued. Each process has a `mode`, a dispatch transaction (`pick`: the
continuations it adds and the rows its candidate query returned), the runs it
`claimed` and has not yet submitted, and its futures (`fut`). `starts` and `report`
are history: how often a run's handler was started and what it returned.

| code | actions |
|---|---|
| `service.py`, requests and timers | `Enqueue`, `Misfire`, `ChangeState`, `Reschedule`, `SetSource`, `StopRun`, `Age` |
| `dispatch_queued_runs` | `Select` up to the candidate query, `Commit`, `Abort`, `CommitUnknown` |
| handing over and execution | `Submit`, `Begin`, `RecordIntent`, `HandlerEnd` |
| persisting an outcome | `Persist`, `KeepOutcome`, `PersistUnknown` |
| the process | `Start`, `Stop`, `Exit`, `Crash` |
| `terminate_lost_runs` | `ListLost`, `EndLost`, `CommitLost`, `AbandonLost` |

Source locks are held from `Select` to the commit (`GatesFree`); what takes no
such lock interleaves. A clock that goes back shows in three places: claims of a
dispatch that are only partly made, rows a restart is `late` for, and outcomes
that are kept for a later try. `CommitUnknown` and `PersistUnknown` are commits
whose acknowledgement is lost. A dispatch's own skipping of disabled and archived
tasks is left out, since it never finds anything: `FencedTasksDoNotQueue` says so.
`admitted` is false when the store is under maintenance, or the continuations
cannot be read and their savepoint is rolled back.

`Misfire` allows more than the code does: `sync_task` reads the task without its lock
and writes `completed` later (`runtime.py:164-186`), so the model lets it complete a
task whatever has become of it since. `Begin` may fail before the handler is called:
the run ends as failed and nothing was started. A continuation passes over a task
whose row another transaction holds. One simplification: a continuation may be given
an older `available_at` than rows queued before it (`continuations.py:91-98`) and then
goes before them among rows of one priority; the model gives it an age of its own
and otherwise its place in the order of insertion.

`MCTaskScheduler` adds `RecurringSpec`: a row that has ended and that nothing refers
to is forgotten (`Forget`) and its place used again, so that two places carry an
unbounded sequence of runs. Such a row changes nothing any more; `ForgetFirst`, a
bound, puts every other step off until it is gone, which `Forget` alone brings about.

Left out: other settings of a task, retired task types, the sizes and texts of
results, the steps of a heartbeat that only renew it. The bounds `Edited`,
`Halting`, `Ages`, `MaxOutages`, `MaxLooks`, `MaxUnknown` and `Unknown` say which
tasks are edited and how often the environment interferes.

### DataTable and CurrentStore

`DataTable` is the promise: a dataset is a table with a generation and a verdict
per scope; it changes by whole inputs; a read shows all its datasets at one
instant, and a strict reader none with open problems.

In `CurrentStore`, `cat` is the catalog, `garbage` the table of paths to delete,
`file` what is written in a path, `disk` what is linked in `objects/`, `op[w]` the
operation of a writer, `rd[r]` that of a reader. Writer lock and commit lock are
held by phases of an operation, so they are predicates on it.

| code | actions |
|---|---|
| `upsert`, `replace_partition`, `record_problems` | `Ask`, `Plan` or `PlanProblem`, `Replay`, per file `Prepare` and `Promote`, `LockCommit`, `Commit` |
| a lost acknowledgement | `CommitLost`, `Land` or `Drop`, `Confirm` |
| timeouts, conflicts, budgets, failing I/O | `Fail`, `FailRead` |
| the end of a process | `Crash` |
| `cleanup`, `recover` | `Sweep`, `SweepDelete`, `SweepForget`, `SweepEnd` |
| `register` | `Register` |
| reading, and the next page by its cursor | `AskRead`, `LockRead`, `Look`, `List`, `Open`, `Return`, `AskNext`, `Leave` |

A file holds rows of some keys; which pieces a staged output falls into is open.
Paths are random in the code and never come again; the model uses a path again
only when nothing knows it any more. A sweep may pass over an entry, which stands
for its grace, its next try or a full batch.

When the acknowledgement of a `COMMIT` is lost, the code looks the marker up at once,
under both locks, with a plain `SELECT` (`storage.py:556-569`, `catalog.py:230`). It
cannot tell a transaction that has failed from one still on its way, and a process
that dies frees its locks while the server may still commit. With `LateCommits` the
model has all of that: `Confirm` and `Crash` do not wait for `Land` or `Drop`. A
`COMMIT` under way holds the row lock of its dataset (`RowFree`). One assumption is
made: it ends within the grace of a prepared file (`Graced`; `orphan_grace_seconds`,
60 s), before a cleanup may take the file for garbage.

The pipeline calls `replace_partition`; `upsert` and `record_problems` are
operations of the same kernel and modelled with it. Left out: rebuilding after an
incompatible schema, the format of files, byte and time budgets, logging. A strict
reader is refused a dataset with any open problem; the code counts those in the
range of the query (`readers.py:272`).

### Account and OrderEngine

`Account` has the operations of the engine's account on one record, as the
engine computes them on a copy and commits it whole: reserving for an order,
filling it, releasing it, settling a session, and the steps of a corporate action
(rights on the record day; shares, splits, taxes on the ex day; payment). Lots
carry what is still claimed on them, because the tax of a dividend depends on how
long its shares are held when they are sold. Amounts are integers, rounded half to
even where the code rounds.

`OrderEngine` is the loop around it. `at`, `time`, `host`, `closed` and `due` are
the driver's place in a session; `acct` and `ord` are account and orders;
`pending` and `told` what the strategy has not heard and has last heard of each
order; `goal` is history: the target it was last promised. A session runs `Open`
(settlement, corporate actions, cancellation of what is halted), `Boundary` with a
`MatchBar` for each security, `Barrier`, `Timer`, `CloseEmpty` when no bar ends the
session, `Expire` and `EndSession`; in between `Call`, `Notify` and `Return` enter
and leave the strategy, which may `Submit`, find its target covered
((`SubmitCovered`) or `Cancel`.

A step that fails ends a run, and so does a limit or an abort: every prefix of a
behaviour is one, so they need no action; `MatchOne` passes over an order whose
fill fails, although errors other than missing cash end the run
(`orders/manager.rs:937-940`). Left out: the tick and quote models;
messages, reason codes and trade notifications; price limits, auctions and
valuation; the other reasons for which the recheck at the open cancels an order, a
limit outside the day's range and missing terms (`execution.rs:335-352`); monetary targets other than "worth" an amount; more than one fee beside
a commission that is minimal or proportional; strategies without order handlers.
The bands of the dividend tax are counted in sessions instead of natural months, with
one rate for each (`actions.rs:896-927`). `Ended`
keeps of a finished order only what is looked at again. The calendar
knows one session after the run, and the host installs first marks and corporate
actions at the start (`engine/crates/qf-python/src/runtime/mod.rs:408-411`).

## 3. Properties and runs

A property of a run marked `*` is also a theorem (section 5).

| run | bounds | checks |
|---|---|---|
| `MCRunClaims` | 2 runs, 2 fences, lease 2, lag 1, two sizes of worker | `ReservationsFit`*, `CancelWins`*, `ResultOfWinner`*, `LeaseHonoured`*, `LifecycleSpec`* |
| `MCRunBatches` | 3 runs, batches of 2, 2 keys | `QueueBounded`*, `OneLiveAttempt`* |
| `MCSupervisor` | 2 supervisors, 1 run, 2 fences, lease 2, lag 1, 1 crash or stop, `EarlyCancel` | `ReservedWhileAlive`* |
| `MCSupervisorFaults` | the same with lease 1, without lag, any cancellation, Docker faults and lost replies, a rollback or crash after `publish()` | `PublishedIsKept`*, `ResultAfterWorker`*, `RepositorySpec`* |
| `MCLiveCrash` | 1 supervisor, 2 crashes, lease 2, lag 1, fairness | `EveryRunEnds`, `CancelEnds` |
| `MCLocalQueue` | 3 runs, the first with 2 fences (`ReclaimFirst`), a batch of 1 or 2, lease 1, queue limit 2, two sizes | `HeldAreListed`*, `ResultsAreKept`*, `RunnableFits`*, `QueueLifecycle`* |
| `MCTaskClaims` | 2 processes, a collector and a local update, 2 runs, 1 thread, queue of 1, earlier intents to continue, 1 look of the heartbeat supervisor, a lost acknowledgement of a claim or an outcome; no stop or crash | `FencedTasksDoNotQueue`*, `WorkLimited`*, `StartedOnce`*, `TruthfulEnd`*, `OneContinuation`*, `RunSettled`* |
| `MCTaskLive` | 1 process, recurring work in 2 places of runs, 2 stops or crashes, a lost acknowledgement of a claim or an outcome, all ages, two priorities, fairness | `TruthfulEnd`*, `RunsEnd`, `QueueDrains`, `IntentServed` |
| `MCStoreCommits` | 2 writers, 1 dataset, an upserted and a replaced scope, 2 inputs, 3 files, 2 generations, garbage of 2, late commits, fairness | `StoreConsistent`*, `AnswersAreTrue`*, `NothingOverwritten`*, `TableSpec`*, `GarbageGoes` |
| `MCStoreReads` | 1 writer, 1 strict reader of 2 datasets, problems reported, 2 generations each, no late commit | `ReadersFindFiles`*, `CursorStable`*, `TableSpec`* |
| `MCEngine` | 3 sessions of 2 bars, 2 securities, 2 orders, 6 kinds of intent, a dividend, a share distribution and a split | `AccountConsistent`*, `OrdersAgree`*, `GoalCovered`*, `RiskBounded`*, `NoLookahead`* |
| `MCClosingTarget` | targets only, no actions | `PromiseKept`, violated: below |

What they show:

- *Runs.* Budget, cancellation, a single winner, fencing by leases and the life of a
  run hold whatever age the claims in use have.
- *Supervisors.* A worker runs only under the current, reserved claim of its run, as
  long as Docker answers. With a daemon that fails, replies that are lost and a
  crash in the middle of the commit, what is published has been retained, no
  worker runs that could still write it, and every step is a transaction of the
  table or leaves it alone.
- *Local queue.* `RunnableFits` joins the types of the files, the budget, the
  roster's limit and "of two attempts of an item that supervisors may see the
  older has failed", wherever a crash falls between two writes.
- *Scheduler.* `WorkLimited` joins the types with the limits of the queue, of a
  task, of local updates and of threads. A row says success only when its handler
  did, also over crashes and restarts (`MCTaskLive`); a handler is started once, an
  entry has one live continuation. A running row ends, a queued one leaves the
  queue however often work of a higher priority recurs, and an intent to continue
  is served.
- *Store.* `StoreConsistent` joins types, current files that exist, files that are
  current or listed and never both, the limit of the garbage and keys that no two
  files give. It holds, an update replaces what its caller saw, and all of it is a
  table, although a commit may land after its outcome was looked up;
  `AnswersAreTrue` says that "ok" means committed, and that an error or "nothing new"
  is not answered after the commit has landed. While no commit lands late, readers find what they listed, pages of one cursor are of the same
  rows, and what they return is the table.
- *Engine.* `AccountConsistent` joins types, cash covered by reservations and locks,
  shares covered by lots, balanced books, and dividends that are neither lost nor
  paid twice. `OrdersAgree` joins reservations, the strategy's knowledge and the
  end of day orders. A promised target stays covered by shares held and ordered,
  the cap on risky shares holds, and no order fills in a bar begun before it.

Why the bounds are enough. Two fences give a stale claim beside a newer one, and
the guards compare a claim only with the row, so a third adds no case; two
supervisors give every pair of roles (holder and reaper, starter and reaper);
one crash separates any two statements; lag 1 with lease 1 or 2 gives readings
before, at and after the end of a lease. `EarlyCancel` leaves out cancellations
asked for after the last claim that the bound allows: one asked for after the
first claim already meets each statement of its holder, and a second attempt
after it. A batch of two repeated once gives repeated attempts and a sibling in
another state. For the local queue crashes are not bounded: any number of
operations may be interrupted; three runs give an item whose retry is interrupted
and repeated, and a queue of two that ended and listed runs share. Two processes
over two task runs give a dispatch beside every request and outcome, the second
process starting while the first executes; stops and crashes are in `MCTaskLive`,
and the theorems have both together. There a place that a run has left is used again,
so a low-priority row waits beside work of a higher priority that never ends: with
strict priority TLC finds it waiting for ever. Two writers over one dataset
give a cleanup beside an update and a stale caller; two inputs over an upserted
and a replaced scope, whose ranges meet, give rewritten neighbours. Two orders give
a replacement beside an order of the other security and two claims on one bar's
volume. The theorems remove the bounds from most of these properties.

Deadlock is checked in the supervisor runs: a supervisor always has a next
statement. The other systems may really stop: rows and runs end with nothing left
to insert, the store with its last generation, the engine after its last session.

### Fairness

- Supervisors (`Fairness`): the main thread of a live process takes its next step;
  a stopped one is restarted (`compose.yaml:102`, `restart: unless-stopped`);
  a worker ends, since its CPU time and wall time are limited; the clock advances.
  Crashes stop because `MaxCrashes` bounds them; clients and heartbeats may or may
  not act. `EveryRunEnds` excepts a run that waits for a claim beyond `MaxFence`.
- Scheduler: the dispatch job recurs, threads go on and handlers return, a process
  that is down is started again, time passes. Strong fairness of `Select`,
  claiming and `Persist` says that the database does not fail for ever: what is
  tried again and again is done at last. No request, stop or crash is fair. Time
  passes, so a waiting row becomes overdue. A commit whose acknowledgement is lost
  is bounded by `MaxUnknown`; a claim that no process was told of is `Forgotten`, and
  the properties say what becomes of it (disagreement 8).
- Store: updates, sweeps and reads end, as their locks have deadlines; an update
  tidies up, or the operator recovers, again and again; and a file that is due
  again and again is at last deleted (`Watched` names the paths that are followed).

### Disagreements

`MCClosingTarget` shows where the engine does not do what `orders/README.md:29,40`
says. A `DAY` target that is given again in a closing callback belongs to the next
session, but `prepare_submit` (`orders/manager.rs:588`) finds the target order of
the session that ends, keeps it and answers that the target is covered;
`expire_day` ends that order directly after, and nothing covers the target.

Others are reproduced by checking the named property with the constants given:

1. `ReservedWhileAlive` with `DockerFaults = TRUE`: a start whose error path cannot
   reach Docker ends the run as failed, and its reservation with it, while its
   container may run (`ops/s3-d12/README.md:23-24`).
2. `OnlyWinnerKept` with `LateRollback = TRUE`, or with a crash: the data gateway
   checks its deadline once more after the callback has retained the result; if
   that raises, or the process dies before the `COMMIT`, the transaction rolls back
   and the retained directory stays without a pointer (`repository.py:287`).
3. `DirectoriesReclaimed` under `FairSpec`: a directory made just before a crash is
   known to no row; one left by a crash after the outcome belongs to a row that
   never expires.
4. `CancelEnds` with two supervisors: a container created after its claim was
   reaped, by a supervisor that then crashed, makes every later reaping of the run
   `continue`; the run stays `starting`.
5. `ExpiryIsFinal` with `MaxLag = 1`: a heartbeat judged by an earlier clock reading
   renews a lease that has run out (`ops/s3-d12/README.md:23`).
6. `RetriedItemsRun` of `LocalRunQueue`: a `retry_failed` that dies between writing
   the batch and writing the roster leaves new runs no supervisor looks at, and
   the items cannot be retried again.
7. `OneLocalWriter` of `TaskScheduler` with two processes: a process that starts
   declares the rows of another interrupted while their handlers go on, so two
   local updates may be executed at a time.
8. A running row for ever, under `RecurringSpec` of `MCTaskLive`: a claim whose
   acknowledgement is lost (`scheduling/runtime.py:280`) has no future, and
   `terminate_lost_runs` (`scheduling/supervisor.py:100`), which would end it, is
   started by nothing but tests. The row ends only when a process starts. So
   `RunsEnd` excepts `Forgotten` rows until then, and `QueueDrains` those they hold
   back (`HeldBack`).
9. `CursorStable`, and `TableSpec` for readers, with `LateCommits = TRUE` in
   `MCStoreReads`: a commit that lands after its outcome was looked up changes a
   dataset beneath a reader that holds its lock, since only the writer's file locks
   keep readers apart. `ops/lf01/lf-d01-interfaces.md:139-145` has the look-up decide
   under both locks, which it does not when the commit is still on its way.
10. `NothingOverwritten` with `LateCommits = TRUE` and `Verdicts` of an upserted scope:
    `record_problems` beside such a commit overwrites a revision it has not seen
    (`storage.py:499-512`, `575-597`).

## 4. Refinement

`RunRepository` implements `RunLifecycle` with `phase` from the status, `asked`
from `cancel_requested` and `published` from the pointer (`LifecycleSpec`).
`RunnerSupervisor` implements `RunRepository` with the identity on its variables
(`RepositorySpec`), so it implements `RunLifecycle` too. `LocalRunQueue` implements
`RunLifecycle` by its files (`QueueLifecycle`): a write of `<run>.json` is a step of
that run, every other write a stutter. `CurrentStore` implements `DataTable`
(`TableSpec`): the rows of a dataset are those of its current files, a commit, whether
acknowledged or found out later, is one `Apply`, the return of a read one `Read`,
and everything a writer, a cleanup or a crash does besides is a stutter. All four are
checked and proved.

## 5. Proofs

The theorems hold for every value of the constants that satisfies the named
assumptions: positive bounds, a positive lease, natural budgets, policies of the
right shape, a `None` that is no key, bars whose prices lie between low and high, and
corporate actions recorded before their ex session (`ActionShape`). The bounds are
arbitrary. Two
hypotheses are stated in the theorems that need them: `~ DockerFaults` with
`ClocksAreFresh` (`ReservationsOutliveWorkers`), and that no commit lands late where a
reader looks at it (`ReadersFind`, `CursorsStable`; for `StoreIsTable` "or there are no
readers", for `NothingIsOverwritten` "or nobody reports problems"). Without them the
statements are false, see the disagreements 1, 9 and 10. `AnswersTrue` and
`StoreIsConsistent` need neither. The runs satisfy the hypotheses of the theorems about
their properties.

**RunRepositoryProofs.** The invariant is `IInv`: types, `Consistent`, `CancelWins` and
`ResultOfWinner`. `CancelWins` alone is not inductive: a claim must not be taken of
a row whose cancellation was asked for, and a row waiting again must not have a
token its last holder could use. `Consistent` says so: only a held row has a token,
the one of its newest claim, and a lease. `ResultOfWinner` needs it too, since a
commit writes the claim's fence, which `Valid` makes the row's.

- Each transaction preserves `IInv` (`NextInv`), shown row by row: most change
  one row, and `ByRow` splits the invariant; inserts add fresh rows.
- `EveryRowStep` says what any transaction may do to a row; the action properties
  `Settled`, `LeaseHonoured` and `ProgressOfAttempt` follow.
- `QueueBounded` needs the cardinality of `Live`: it grows only where `_capacity`
  was asked.
- `OneLiveAttempt` needs that the rows of a batch were all made under its key, so
  that a new batch meets no older attempts (`BatchKnown`).
- `ReservationsFit` (`HeldRunsFit`): a claim adds up the held rows and its own under
  the queue's lock; every other transaction keeps or shrinks the set of held rows
  and the configuration of each (`FewerFit`). It needs that a row that was ever
  inserted has a configuration (`Configured`), and that a sum over a part is no
  larger than the sum over the whole.
- The refinement has one lemma per transaction, onto an action or a stutter.

**FunctionSums** provides the last: `SumGrows`. `SumFunctionOnSet` adds up in an
order that `CHOOSE` picks, so the lemmas first say what adding up in some order is
(`Adds`), that it exists for every finite set and yields one number whatever the
order, and that it grows with the set. Each is shown by a smallest counterexample,
since the induction theorems of the library take an operator.

**RunnerSupervisorProofs.** `RepoStep` says that each step of the system is one of the
table's or a stutter. It needs that every claim in use was issued (`CurKnown`) and
types, so `SupIInv` is `IInv` with those. `PublishedIsKept` needs that a success
reaches the commit only with a sealed result.

Its second half proves `ReservedWhileAlive`, for any number of supervisors,
runs and crashes. `HolderInv` holds with or without Docker faults: a claim is
started by one thread (`StartedByOne`), and whoever ends a run with a result has seen
that its container is gone and nobody else can start it again (`FinishOK`).
`ResultAfterWorker` follows from it (`ResultsAreComplete`). `ReservedInv` adds what a
reservation needs: a thread on its way to starting a container holds the newest
claim, or one whose row has moved on and will be refused (`StartOK`, `BootOK`);
whoever hands a run back has seen the same (`ReapOK`), since the claim of a lapsed
lease never becomes valid again. The last needs `ClocksAreFresh`, a clock reading younger
than a lease when it is used: the lags of the model are unordered, so with older
readings one process could renew a lease by a reading older than its claim, which no
clock does. The parts of the invariant were checked by TLC, as invariants of
`MCSupervisor`'s system, before they were proved.

**LocalRunQueueProofs.** An operation is a plan: the writes it will do in order. The first
is done with the lock taken, the others are `pending`, and a crash drops them. So the
invariant `QInv` is about files and about plans: `Files` is what the files keep, among
it `HeldAreListed`, `RosterFits` and `ResultsAreKept`; `PlanOK(pending, made)` says
that no prefix of what is still to come would break it: a row is only inserted or
ended by a write that waits, a result precedes the row that names it, the roster comes
last. `DoesFiles` and `DoesPlan` show that a first write keeps both, and one lemma for
each operation that it is such a plan. `QueueSettled` and the refinement follow from
`Lawful`, what a write of a row may do to a run.

`RunnableFits` (`WhatMayRunFits`) needs more of plans and files. `Attempts` says that a
run which supervisors saw or may see is the attempt its batch names, or an older one
that has failed; it implies `OneRunnableAttempt`, and unlike it is inductive. It is
kept because a plan is `Orderly`: by the time the roster names a run, the batch does
(`Placed`), and a batch only replaces the names of items that have failed
(`Advances`). That a retry is such a plan rests on `Ranked`: `retry_failed` numbers the
failed items in their order, so every new run has exactly one item. `ReservationsFit`
is kept since a claim adds up the reservations of what is listed, all that is executed
is listed, no waiting write executes anything (`Quiet`), and fewer runs need no more
(`SumGrows`). `Attempts`, `Kinds` and `Quiet` are also what TLC finds on the system of
`MCLocalQueue`.

**TaskSchedulerProofs.** `SchedInv` is: types; `PickInv`, what an open dispatch may rely
on although rows change beneath it; `RunInv` for each run, which ties its row to its
place in `claimed` and `fut`, its `starts` and its `report`, so that a handler starts
once and its word reaches the row or the row was declared interrupted or lost
before; `OneLocalRow` and `FencedTasksDoNotQueue`. `RunSettled` follows from the
steps' effect on rows.

In its second half `LimitInv` adds the limits and what an open dispatch has reserved:
its continuations fit the queue, its selection fits every task's limit beside what is
running and the free threads (`PickFits`). The key is `BoundByLast`: a finite set in a
strict order in which fewer than k precede each has at most k elements. The candidate
query ranks by such an order, so `SelectedFit` follows. The other steps only take
away from what is counted (`ShrinksKeep`). `OneContinuation` follows from
`ContinuationsFit`: a continuation is added only for an entry that nothing queued
or running covers. Each limit is looked up in one transaction and used in others.

**CurrentStoreProofs.** `StoreInv` is: types; the locks (`LocksHeld`); for each writer what
its phase has established about its files, its reading and the outcome of its
transaction (`Outcome`, `Staged`, `Swept`); the store itself; the room in the garbage;
for each reader that what it saw is still there while it holds its locks (`Seen`); and
no wrong answer. A commit on its way may outlive the operation that sent it: it
holds the row of its dataset (`RowHeld`), so no other operation that counts on what it
read of the dataset (`Firm`: all but a report of problems that changes no file) is
under way beside it, and no sweep deletes its files (`OpenApart`). `StepKinds` sorts the steps by what they touch, so that each part is
shown once per kind. `CommitRows` says that the files after a commit join to the
table after the input, which is where `NoKeyTwice` is needed; the refinement rests on
it. `DataTable` lets the rows stay as they are only when a problem is reported, so the
refinement also shows that an update which changes no file has its input in the rows
already (`NothingNew`, kept while the catalog it was planned on stands: `Steady`).

**AccountProofs.** Each operation of `Account` keeps an account `Sound`, for any lots,
claims, fees, taxes and corporate actions. `Sound` is stronger than
`AccountConsistent` where that is not inductive:

- A claim on a dividend is on all shares of its lot, and only a recorded dividend
  is claimed (`FineLots`). Otherwise selling part of a lot could take more of a
  dividend than the lot has.
- What is on sale is covered by the shares that may be sold already (`Holding`),
  and what an action still owes to shares, has paid with sold ones and has
  withheld is what it recorded (`Shared`), whichever lots it is spread over.
- Cash is what is reserved, blocked until a session, or free (`Money`); a
  dividend that is receivable is one whose ex session was and whose payment was
  not (`Coming`).

The measure of a sequence of lots is `Weight`: shares, shares that may be sold,
what is still claimed. Each loop over lots is a `FoldLeft` with an invariant on its
prefixes: `TakenAll` (a sale takes what it was asked for, and from each lot its share
of each claim), `AttachedAll` (a dividend is divided among the lots without a rest,
since each takes its part of what is left), `SplitAll` (a split scales each lot
and the whole alike). Their arithmetic, rounding half to even, is
`ReleasedCost` staying between nothing and all, and `Division`. On these rest the
theorems: `ReserveSound`, `FilledSound`, `FreedSound`, `SettleSound`, `RegisterSound`,
`ExSound`, `PaySound`, and `AdvanceSound`, which runs the actions of a boundary in
their order. It needs `Timely`: at each boundary exactly the actions that are due
have been recorded, begun and paid. So nothing is paid twice, and the
assumption that a record session precedes the ex session and this the payment
is used there. `SoundConsistent` says that a sound account is consistent.

**OrderEngineProofs.** The engine changes orders in folds: over the orders that end,
the corporate actions of a boundary, the orders a bar may fill. `FoldExists` shows
once that such a fold over a finite set of numbers is well defined, and each fold
keeps its invariant by a smallest counterexample: `FreedAll` (exactly the
reservations of a set end), `Advanced` (corporate actions end reservations and
change nothing else of them), `MatchedAll` (`Matches`: only orders that were there
when the bar began are filled, each by what its reservation had left, and what is
bought was ordered). `EngineInv` is about orders and needs of the account only its
reservations:

- `Agrees`: an active order has the reservation of its rest and no other order has
  one. `Affordable` and `MayFill` bound a fill by the reservation, so this is also
  what keeps `filled` within `quantity` (`Orderly`).
- `WithinCap`: what is bought today and still ordered. `Matches` says that a fill
  moves shares from the second to the first; a replacement is where it could go
  wrong, as it counts what remains after the orders it replaces (`EndedBids`).
- `Reported`: for each order the last word on its way to the strategy, or the last
  it heard if none is, is the order's state. `Informed`, which says this only when
  nothing is on its way, is not inductive.
- `DayFits`: the first session a day order may still be active in, which the close
  of the session moves on.

`NoLookahead` follows from `Matches` and from every other step leaving `filled` as it
is. `BooksInv` adds that the account is sound, belongs to the session the clock is
in, and has its rights up to date for the place of the driver in it (`Stage`). With
`Agrees` it is what the operations of `AccountProofs` need, so `AccountConsistent`
follows (`AccountStaysConsistent`). `GoalInv` is `GoalCovered` with the plan of a
security (`PlanFor`: what its active orders will still change) in place of the sum
over its live orders. A fill moves a part of the plan to the position (`Gains`,
`FilledPlan`); a replacement ends the orders of the old plan and adds one that makes
up the difference (`ReplacedPlan`, `PlacedPlan`). Corporate actions change positions
only where a goal was given up in the same step, which is what `AdvanceSound` says
of the other securities. `EngineInv` and the parts of `BooksInv`, with types TLC can
evaluate, were checked on the system of `MCEngine` before they were proved.

Proved, and not a property of a run of its own: the types of the table and of the
supervisors' variables, `ProgressOfAttempt`, `Settled`, `QueueSettled`, `RosterFits` and `OneLocalRow` (the
last two are parts of checked ones), and the theorems of `AccountProofs`.

Only checked by TLC: liveness, which is beyond the prover (`EveryRunEnds`,
`CancelEnds`, `RunsEnd`, `QueueDrains`, `IntentServed`, `GarbageGoes`). Every invariant,
every action property and every refinement that a run finds to hold is a theorem.

## 6. Plan

Done: the modules of section 2 and their proofs. Next, in this order:

1. The refinement of the engine's account by a ledger that only moves money.
2. Event sources: merging of streams in event time (`qf-core`, clock and loop).

Not planned: vendor clients, CRUD without concurrency, fact selection, user
interface, migrations and deployment, which are data or I/O rather than control.
