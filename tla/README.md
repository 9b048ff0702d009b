# A verification development for Meteor Quant

TLA+ modules that model Meteor Quant's own core logic, the TLC configurations that check
them on small instances, and theorems about them whose proofs TLAPS checks. Paths such as
`live.py` are below `src/meteor_quant/` of the repository; `PROJECT.json` lists every run,
theorem, hazard and, per definition, the lines it models.

## 1. Inventory

Meteor Quant backtests strategies on a Binance BTCUSDT data set, trades them on paper
against Kraken's public data, and trains two forecasting models. One FastAPI process serves
a browser page; training and data preparation run in worker processes it spawns.

| Component | State | Operations | Talks to |
|---|---|---|---|
| File lock, `marketlm/fileio.py` | lock file, JSON file | acquire, judge stale, reclaim, release, update | API process and workers through the file system |
| Job managers, `marketlm/jobs.py`, `markethybrid/jobs.py` | `status.json`, `result.json`, `_processes`, `registered/` | start, stop, list/get (reconcile), register, unregister | workers: files, signals, `Popen` |
| Workers, `*/worker.py` | pending status, stop flag | prepare, train, report, fail | `status.json`, `result.json`, checkpoints |
| Training loops, `*/training.py` | step, best values, checkpoints | step, validate, stage change, stop, resume | run directory |
| Prepared tensors, `marketlm/dataset.py` | directory per fingerprint | prepare, publish | several workers, one directory tree |
| Data sets, `datasets.py` | canonical Parquet, metadata | prepare, scan, describe | CSV files the user replaces |
| Backtests, `engine.py`, `rust/` | signal cache, results | key, prepare signals, run | data sets, strategies |
| Kraken client and stream, `market.py` | connection, open candle | page, connect, parse, clock, aggregate | Kraken |
| Paper session, `live.py` | history, aggregator, broker, last trade id | start, bootstrap, run, catch up, stop | stream, database, hub |
| Paper broker, `broker.py` | cash, quantity, average price | rebalance, snapshot | session, mirrored by the engines |
| Database, `storage.py` | bars, fills, equity, backtests | upsert, load, save | session, API |
| Event hub, `events.py`; page, `frontend/` | set of clients; chart state | connect, publish | session to browser |
| Strategies, `strategies/` | parameters, indicators, last crossing | build_signals, on_bar, on_live_bar | session, backtest |
| Registry, `strategies/registry.py` | classes by key | reload, create | API |
| Models and inference, TimesFM | tensors, caches | forward, predict | strategies |

What is hard here: worker processes, the API process and its threads share files without a
transaction, and any of them may be killed; a live session merges three sources of the same
trades (stored bars, REST history, WebSocket) across reconnections; caches are validated by
signatures taken at one moment and used at another. What makes each part correct:

- file lock: one process in the critical section, no lost update, no waiter stuck;
- jobs: one GPU job, reports that end and stay, "completed" only with checkpoints;
- live session: a trade counted once, none skipped, an append-only sequence of bars, bars
  that close although nobody trades;
- caches: an answer as new as its request, prepared data that can be read;
- engines and broker: next-open execution, cash, agreement of the two engines;
- training: best checkpoint and stage survive stop and resume;
- preparation: one complete directory per fingerprint, whoever builds it; no split sees
  what the next one is judged by;
- session manager, hub and page: one session runs, one session is shown, a stopped session
  is silent;
- strategies: a paper session decides what a backtest over the same bars decides.

## 2. Modules

| Module | Models | Uses |
|---|---|---|
| `FileLock` | `interprocess_file_lock`, `update_json_file` | `SharedRecord` (abstract) |
| `SharedRecord` | abstract: a record updated atomically | |
| `FileLockProofs` | theorems about `FileLock` | `FileLock`, TLAPS |
| `Jobs` | both job managers, workers, resume script | |
| `JobsProofs` | theorems about `Jobs` | `Jobs`, TLAPS |
| `Candles` | `CandleAggregator`, `aggregate_trades_to_bars` | |
| `LivePaper` | the bars of a `PaperSession`, stream, REST history and candles, bar table | `Candles`, `BarTape` (abstract) |
| `BarTape` | abstract: an append-only tape of bars without holes | |
| `LivePaperProofs` | lemmas on `Candles`, theorems about `LivePaper` | `LivePaper`, TLAPS |
| `Caches` | `DatasetCatalog.prepare`, `scan`, `prepare_signals` | |
| `CachesProofs` | theorems about `Caches` | `Caches`, TLAPS |
| `Accounts` | cash, position and the order towards a target, as operators | |
| `Broker` | `PaperBroker` | `Accounts` |
| `Backtest` | the row loop of `PythonArrowEngine` and `EngineState` | `Accounts` |
| `BrokerProofs`, `BacktestProofs` | theorems about these; each begins with the lemmas on `Accounts` | TLAPS |
| `Splits` | boundaries, purge gap, sample endpoints and windows, as operators | |
| `PreparedCache` | `prepare_training_data` | `Splits` |
| `Training` | `train_markethybrid`; `train_marketlm` is the instance with one stage | |
| `WorkerRun` | `run_worker`: preparation, then training, failures and the resume script | `PreparedCache`, `Training` |
| `WorkerRunProofs` | lemmas and theorems about the four | TLAPS |
| `Decisions` | `build_signals` and `on_live_bar` of every strategy, as operators | |
| `Sessions` | session manager, session task, `EventHub`, the page's charts | `Decisions` |
| `SessionsProofs` | theorems about `Sessions` | TLAPS |
| `MC*` | instances for TLC | |

### FileLock

`pc[p]` follows a process through the loop of `interprocess_file_lock`; `lock` is the lock
file with its creator, whether the creator has written its pid, and its age. Judging a file
takes two actions (`Stat`, `ReadPayload`) and unlinking it a third, as in the code, so
another process can act between them. The age is a class (under 1 s, 1 s, 2 s,
`stale_after_seconds`) because these are the only thresholds the code compares with.
`MaxHold` is how old a live holder's file may become, `Faults` which failures occur: a
process killed anywhere, an unlink that hits a sharing violation, a release that gives up.
A dead process stays dead; a restarted one is another member of `Proc`.

### Jobs

A run has its two files (`status`, `pid`, `result`), its worker (`worker`, `handler`,
`stopFlag`, `pending`) and the manager's view (`processes`). The API handlers are `async
def` without an await inside, so they exclude each other, and `start` and `stop` are split
where the worker can act or the API process can end: between writing `status.json` and
`Popen`, between reading the status, writing "stopping" and signalling. `Reported` is
`read_run_status`: `result.json` overrides `status.json`. An update by a worker either
reaches the file or is kept in `pending`, as `run_worker.update` does when the file lock
times out. The two managers check each other's list before they start a run (`api.py`), so
there is one set of runs; the map names either copy of the code.

`Poll` is a reconciliation of all runs in one step. In the code a worker can act between
reading a status and overwriting it; `result.json`, which the worker writes before it ends,
then still decides the report, except when the worker is also killed in between.

### LivePaper and Candles

The session is one asyncio task; each action is what it does between two awaits. A bar is
its interval, the ids of the trades it counted and the id its close price is from: with
these, open, high, low and volume are functions of the trades, and the properties can tell
which trade was counted where. The exchange numbers its trades; the REST history is the
trades of an interval in pages; the feed delivers in order while it is connected, replays
the latest `SnapshotSize` trades on connection, and loses what was not read when the
connection drops. `source` says what the timeframe starts from: below a minute the trades
of the REST history, and the feed replays its latest trades; from a minute on Kraken's own
candles, whose trades the session never sees one by one, and no replay. `Bootstrap` asks
for history at `asked` and finishes later, while the market goes on. `at` says where the task waits: for an event, for a catch-up after
"connected", between the closed bars of an aggregation, before and after the fill.

### Caches

A request is a thread that prepares the data set or runs a backtest. Files are inodes:
`temp` and `canonical` are names, and a name that is unlinked or replaced leaves a thread
writing the old inode. A version of the CSV files stands for their contents and for their
signature (path, size, modification time). `overlapped` records that two threads have been
building at once.

### Accounts, Broker and Backtest

The code computes with floats; the modules use integers scaled by `Unit`, and a position is
a number of lots, rounded down where the code divides. What is exact in the model (the
books balance, cash stays at or above zero) therefore holds for the code up to float
rounding. `Accounts` has the parts that `broker.py`, `engine.py` and `main.rs` repeat:
clamping the target, the two checks of the minimum, the affordability cap and the
settlement. Fees above the whole price, which the API would accept, are left out
(`AccountsAssumption`), as are spreads that make a sale's price negative.

`Broker` adds the execution prices of a quote, the average entry price and the realised
profit, which are fractions in lowest terms because an average of lots is. `Order` is
`rebalance_to_fraction`; orders that are refused change nothing.

`Backtest` is one row per step: execute the pending target at the open, take the row's own
target, mark the account at the close, sample. It stands for both engines: they differ only
on rows whose prices are missing, which the canonical data set filters out
(`datasets.py:255`), or not positive, which no market quotes.
`rows` and `curve` are history the properties compare with; `worst` keeps the drawdown as
the equity and the peak it was measured from. `Held` is the reference for
`ExecutedAtNextOpen`: the account recomputed from the rows, without pending state.

### Splits, PreparedCache, Training and WorkerRun

`Splits` computes with the numbers of rows and bars of the code: fractions of the data are
given in parts, since only their rounded products matter. A row is dropped when a label of
it would cross a hole, so that rows are never nearer in time than their numbers say.
`Chronological` compares the last row anything of a sample depends on (its labels, its
JEPA targets, the normalisation) with the first endpoint of the next split.

`PreparedCache`: a directory is absent, partial (what a kill or a half-done removal leaves)
or complete with a number of rows. `pc[w]` is the place of a worker in
`prepare_training_data`; the commit lock is held while it looks and while it publishes, and
not while it builds. It is the lock of `FileLock`, with what a killed holder does to it: its
file stays (`Orphan`), a waiter judges it (`FindStale`) and unlinks it by name in a later
step (`Unlink`), when the name may belong to a worker that is alive. `stolen` records that
this has happened; from then on two workers can hold the lock, and each replaces what the
other publishes. A removal takes at least two steps, the first of which leaves a directory
without some of its files: `RemoveOld` at the published name, `RemoveOwn` for the worker's
own directory in the `except` clause, which does not take the lock. The latter has the
directory open by then: when a recoverer renames it, the removal goes on at the published
name (`inside`) until it misses the old one. The rename can be denied and the directory
copied instead; the candidate of a recovery can vanish under the worker that lists or
recovers it, which then fails with FileNotFoundError. `mishaps` counts what fails for good:
a lock wait that times out, a read of a directory or a removal that stays denied. Two builds
may find different rows: the source is scanned after the fingerprint was computed.

`Training`: `phase` follows one turn of the loop, in the order in which files are written.
A model is the number of optimizer steps each module has had, with the modules whose
optimizer state it carries; a checkpoint is that with its step, its stage and what the
process knew of its validations (`best`). `Launch` is the resume: the latest checkpoint is
`final.pt` if there is one, because its name is sorted behind `checkpoint_step_*.pt`.
Optimizer state is dropped when the checkpoint was written at the very end of a stage, and
patience starts anew on every resume; both are what the code does. `top` and `lost` are
history: the best that `metrics.jsonl` has recorded, and whether a restart fell back behind
it. `restored` says that the weights came from `restore_best`, which the schemas default
to true and which the model always does. `Fill` is one action although it writes up to
three files: no other process reads them before the run is completed.

`WorkerRun` composes the two: a worker trains on the directory its preparation returned,
its process may be stopped, killed or fail at any point, and a new one starts over with the
preparation. A relaunch is `resume-markethybrid-run.sh` or a new start on the same run
directory.

The code of `marketlm/` and `markethybrid/` repeats itself; a definition is mapped to one
of the two copies, so that together they cover both.

### Decisions and Sessions

What a model or an indicator says of a bar is an outcome: bullish, bearish, neither, or a
bar some feature of which is not finite. `Target` is what a backtest makes of a sequence of
outcomes, `Decide` what a session makes of its newest bar with the history it keeps.
TimesFM's schedule is kept as the row of the last forecast (`forecast`); what it forecasts
while a session bootstraps is thrown away but counts for the schedule. In a backtest
`prediction_stride` is taken to be 1, except for TimesFM. The live RSI uses simple averages
where the backtest smooths exponentially: this difference is arithmetic, not modelled.

`Sessions` has the start and stop requests that wait for `PaperSessionManager`'s lock
(`holder`, `doing`), each session's task (`at`), the hub's one client, a socket that takes
`MaxInbox` messages before `send_json` waits, and the charts of the page. Each action is
what runs between two awaits; a publication waits for room in the socket, and a cancelled
task stops where it waits. A session can fail between two events, when its strategy raises
on a bar that is in the history already, and when the database raises on a fill the broker
has made already; that bar or fill is then never published (`Fail`). `bar_closed` and the `plots` after it are one message; quotes,
account, `bar_update` and market status are left out, as each replaces one value on the
page. The page's panel that shows the session's state is not modelled: there the answer
of a start request can overwrite a newer message (`App.tsx:390`).

## 3. Runs

Two workers, on a small machine: the longest runs take about four minutes.

| Run | Bounds | States | Shows |
|---|---|---|---|
| `lock` | 2 processes, 2 updates each, kills, sharing violations | 10 thousand | types, mutual exclusion, release of one's own lock, `UpdateEnds`, atomic updates |
| `lock_stale` | 3 processes, 1 update each, kills | violation | two holders after a stale lock |
| `jobs` | a training and a preparation run; one API restart, resume, kill, deferred update, at most two in all | 650 thousand | single managed job, artifacts, final reports, every run ends |
| `jobs_restart` | the same runs, one API restart | violation | two GPU jobs after a restart |
| `live` | both sources, 2-second bars, 8 seconds, 4 trades, 2 sessions, 1 lost connection | 440 thousand | counting, no gaps, tape, bars close |
| `live_quiet` | 1-second bars, 8 seconds, 1 trade, 3 pages | violation | refusal at a page limit that was not reached |
| `caches` | 2 threads, 3 versions of the CSV files (one of them invalid), 2 builds, 1 crash | 2.2 million | current answers, readable data, signature |
| `broker` | 3 policies, 5 targets, 3 quotes, 4 fills | 10 thousand | policy, balance of the books |
| `backtest` | 3 policies, up to 4 rows, 2 prices, 3 targets or none | 220 thousand | next-open execution, drawdown, equity points, policy |
| `worker` | 2 workers, 2 numbers of rows, 2 attempts each, 1 kill or mishap; 2 stages, 3 steps, 2 scores, 2 launches | 280 thousand | complete and immutable tensors, no lookahead, best model, schedule, files, everybody ends |
| `sessions` | 2 sessions of each kind of strategy, 1 stop request, 2 bars, history of 3, 1 lost connection, a socket of 2 messages | 3.1 million | one running session, silence once stopped, one session on the page, live decides as batch |
| `live_hold` | one kind of strategy, 3 bars | violation | a held target is forgotten |

Why the bounds are enough. `lock`: the interesting interleavings are of a holder and a
waiter; that three are needed to break mutual exclusion is what `lock_stale` shows. `jobs`:
each hazard needs one or two faults, and two runs are what single-job safety is about.
`live`: eight seconds hold four bars, so a session can bootstrap, close bars, lose its
connection, catch up and be replaced by another over the bars the first one stored; one
trade per second makes a bar hold up to two trades, and pauses leave empty bars.
`caches`: two builders are enough to overlap, three versions to serve an old one while a
newer build is under way. `broker`: four fills open, extend, reduce and reverse a position.
`backtest`: a decision needs two rows, a changed decision three, a drawdown after a new
peak four; two points make the stride two, with and without a row left over at the end.
`worker`: a build needs one competitor to be overtaken, a second attempt after a kill to be
recovered, and a third would repeat the second. One kill and a relaunch already give the
commit lock a dead holder with two waiters, hence two holders; one mishap sends a worker
with complete tensors into the unlocked clean-up, or removes a good directory. 9 rows are too few for the splits and 24
are enough, so that both outcomes of a build occur; two stages train different modules, the
second for two steps with patience one, so that it stops early or not, is left by a stop
before or after its checkpoint, and is resumed at its start, inside and at its end. Losses
and scores are only compared: two scores make a later validation better, equal or worse.
With these intervals every step is validated, so the branches of `Fill` that write a
missing best file are not taken in the run (the theorems cover them). `sessions`: two
starts overlap each other and a stop; a history of 3 bars over bootstraps of 2 makes the
deque forget when a third bar closes; two messages fill the socket in the middle of a bar.
Its sessions run the same kind of strategy, because sessions share nothing their strategies
decide by, and are interchangeable (symmetry; the run checks no liveness).

Deadlock is checked in `worker`, where the end of all work is an action (`Done`). It is off
elsewhere: clocks, updates, sessions and requests are bounded, so every instance comes to
rest when its bounds are used up.

### Fairness

- `lock`: a process that is not killed takes its next step (weak fairness). The deadline of
  `time.monotonic()` passes, so a process that comes to the deadline check again and again
  leaves by `TimeoutError` (strong), and a sharing violation does not last for ever
  (strong). `UpdateEnds` then says that nobody waits for ever on an abandoned lock.
- `jobs`: the worker's program goes on (weak, per run; progress reports, failures and kills
  are not fair), the API continues a handler it began and is started again (weak), and the
  page polls every few seconds, also between other requests (strong, because a poll is not
  enabled while a handler is at work).
- `live`: the event loop resumes a task that can go on, and time passes (both weak).
  Nothing of the exchange is fair.
- `worker`: a process that runs takes its next step; strong for the preparation, because
  waiters poll the commit lock with random delays and the same one does not always miss it,
  weak for opening the tensors and for the training. Nobody has to be started, stopped or
  killed, no lock wait has to give up and no file has to stay denied.

### Assumptions of `NoTradeSkipped`

The property is about what the code can reach: the trades since two bars before the last
one seen, which a catch-up asks for, fit in one page of the REST history (`MissedFitsPage`
in `LivePaperProofs`; 1000 trades, in the run 4 against 4 trades in all), and the trades
of one second fit in the feed's snapshot, because the catch-up asks up to
`int(time.time())` and so leaves out the current second. Beyond them the code does skip
trades: the catch-up stops at the first page that is recent enough and ignores `complete`.
Trades that arrive after their bar was closed are dropped by the aggregator; they are in
`late`, the only exception the property makes. A decision of the strategy, quotes and
the local clock are never ahead of the exchange's clock in the model.

A whole-minute session asks for nothing after a reconnection, so that the trades of the
gap are missing in its bars; the property is about sub-minute sessions.

### Conditions of other properties

- `ReadyIsComplete` and `PublishedIsImmutable` hold while the cache is `Undisturbed`: no
  waiter has unlinked the commit lock of a live worker (`stolen`), and no lock wait, read or
  removal has failed for good (`mishaps = 0`). TLC violates them without either condition:
  - The holder of the commit lock is killed after it has written its tensors, and two
    waiters judge its lock file stale. The first unlinks it, acquires, loads the dead
    worker's directory and publishes it; the second, which unlinked the first one's fresh
    lock, has loaded it too, finds a directory at the destination and removes it
    (`dataset.py:292-293`). The first has returned it as prepared. Kills of a holder alone
    do no harm, as long as only one waiter reacts.
  - A worker that waited 300 seconds in vain at its commit, or whose read or removal stayed
    denied there, removes its complete temporary directory without the lock
    (`dataset.py:577-580`), while another may be recovering just that directory, or have
    renamed it already.
  - At the first look an `OSError` of the load counts as "cannot be loaded": a read that is
    denied for a moment removes a good directory (`dataset.py:274-275`).
- `BestIsHighest` compares with every recorded validation as long as no restart fell behind
  one (`lost`): a validation is recorded in `metrics.jsonl` and its model saved at once, but
  the value reaches a checkpoint only with the next one. A run killed in between knows
  less than it has recorded, and a later, worse model replaces `best_hybrid.pt`. The same
  condition stands in `WeightsFollowSchedule` for restored models: without it, a run
  stopped early after such a restart takes back a model that is *ahead* of its step, and
  `final.pt` holds more training than its step says. The attempt to prove the unconditional
  form led to this case; TLC confirms it with a checkpoint interval above one.
- `LiveMatchesBatch` holds while the row that decides is one the session's history still
  answers for (`Remembered`); `live_hold` shows what happens otherwise.
- `PageIsOneSession` is about a page that has missed nothing since its last bootstrap. The
  last bar and the last fill of a session may be missing: a stop can cancel the task, or a
  failure end it, after the bar entered the history or the broker filled and before the
  message was sent.
- `SingleManagedGpuJob` holds while one API process has started every worker: after a
  restart the code does break it (`jobs_restart`), and a resumed run is started by a script
  that does not look at the other runs.
- `AnswersAreCurrent` excepts a request whose cache key has no `updated_at`. A build that
  fails removes the metadata (`datasets.py:151-155`), also under a request that has just
  prepared the data set; `prepare_signals` then keys with `None` (`engine.py:88-92`), and
  what an earlier such request cached under that key may be of older CSV files. The
  attempt to prove the unconditional form led to this case; TLC confirms it with two
  threads, four files and six versions, two of them invalid, which are beyond the bounds
  of `caches`.

### What the violations say

- `lock_stale`: a waiter unlinks a lock file it judged earlier. With a dead holder and two
  waiters, the slower one removes the fresh lock of the faster one.
- `jobs_restart`: the pid reaches `status.json` only with the worker's first update; an API
  process started before that reports the live worker failed and accepts a second GPU job.
- `live_quiet`: `fetch_trade_history` stops at the exchange's last trade with
  `complete=False`; the bootstrap reports this as its page limit and refuses to start.
- `live_hold`: `predict_live` decides from the bars the session still has and starts from
  flat: when the last decisive bar has left the history, a target that the documentation
  says is retained goes back to flat.

### Mutants

Every property of a passing run has a mutated definition beside the one it replaces (marked
"Mutant:" in the modules); with it the run finds the property violated. Two of them serve
more than one purpose: creating the lock without `O_EXCL` breaks exclusion and atomicity.

## 4. Proofs

Every theorem holds for every value of the constants that satisfies the named assumptions
(`FileLockAssumption`, `AccountsAssumption` and so on, in the modules that declare the
constants). Each invariant was checked by TLC before it was proved, `TrainInv` for both
metrics and for checkpoint intervals of two and five. The modules `*Proofs` hold the
theorems; what the listed ones say is also in `PROJECT.json`.

### The file lock

- `TypeCorrect`: `Spec => []TypeOK`, under all faults;
- under `SafeRegime` (nobody is killed, releasing works, a holder is done
  within two seconds, while unlinks of stale files may still fail):
  `LockExcludes` (`[]MutualExclusion`), `LockReleasedByOwner` (`ReleasesOwnLock`) and
  `AtomicUpdates` (`Spec => UpdatesAreAtomic`, the refinement of `SharedRecord`).

Mutual exclusion is not inductive: a waiter that has judged a file stale would unlink the
lock of a live holder. `SafeInv` adds that the holder and the creator of the lock file are
the same process (`HolderOwnsLock`), that no waiter has seen an age at which a live
holder's file may be judged stale and none is about to unlink (`NeverStale`), and that what
the holder is about to write is what the file holds (`CopyIsCurrent`). `StepSafe` shows
that each action preserves it; `CopyIsCurrent` makes `Replace` an atomic update. That the
regime is needed is what `lock_stale` shows for kills, and `NeverStale` for slow holders.

### The job managers

`JobsTyped`, `OneGpuJob`, `CompletionIsBacked` and `ReportsAreFinal`, for every set of runs
and every bound on restarts, resumes, kills and deferred updates.

That one job works at a time is not inductive: `start` looks at what is *reported*, so the
invariant has to relate the report to the worker. `Known` does so while one API process
manages every worker: whoever works is a child of the manager and reported active, nobody
else works, and nobody works while a worker is about to be spawned. It needs `Unspawned`
(what was never spawned has left no `result.json` and no deferred update behind) and
`AtWork` (what a worker at work holds back is never the end of its run: otherwise a kill
could not be told from a completion). `Backed` follows `completed` from the saved
checkpoint to `status.json`, `result.json` and the deferred update, each of which reports
it on its own. `ReportsAreFinal` is an action property: `EndedStaysReported` says which
actions leave the report of a dead worker's run alone, `DeadWritesNothing` that it is
written by nobody but the manager. Because many actions treat these variables alike,
`ApiMoves` and `WorkerMoves` first say what a step may do to one run, in one formula each;
the invariants are then proved from these summaries.

### The live session

For every timeframe, history length, page size, snapshot and bound; the run's clock must
only last long enough for the bars a session starts with (`Required * TF <= MaxTime`):

- `LiveTyped` and `CountedOnce` (`[]TradesCountedOnce`). That a trade is counted once needs
  that no bar but the open one can still count (`Taped`: the session's bars, from the first
  it closed to the one it builds, are consecutive intervals whose trades are in order,
  each in its own interval), and that what was counted is behind the last trade seen
  (`Seen`). A session from whole-minute candles has seen no trade by then; what it has
  counted is instead before all that is on its way. `Delivered` and `Places` say what can
  be on its way, and where the task waits while bars or trades remain to be handled.
- `LiveTape` (`Spec => BarsAreTape`): the refinement of `BarTape`, from the same invariant:
  what `CloseBar` moves to `live` is the bar that `Taped` puts behind the others.
- `NoneSkipped`: `Spec /\ []MissedFitsPage => []NoTradeSkipped` if `MaxPerSecond <=
  SnapshotSize`, the two conditions stated under "Assumptions of `NoTradeSkipped`".
  `Ahead` is the reason: once a session has asked for what it missed, every trade behind
  the last one seen is in its batch or on its way. It holds when the stream connects
  because the snapshot has the whole current second (`Busy`), and after the answer because
  the rest fits the page; `Lined`, `Suffix` and `InBatch` say that what is ahead comes in
  order and without a hole, so that the next trade handled is the next trade.

The first part of `LivePaperProofs` is about the operators of `Candles`: `AdvanceTo`,
`AddTrade` and `BarsOf` keep bars consecutive and count a trade in its interval.

### The data set and the signal cache

`CachesTyped`, `BacktestsAreCurrent`, `PreparedCanBeRead` and `SignaturesAreCurrent`, for
every set of threads and every number of versions, files and crashes.

A request relies on what others put under shared names after it has looked. `Relied` says
what it may rely on: from the moment its cache key is chosen, all that the names, the cache
under that key and whoever is about to publish under it hold is at least as new as the
request (`Current`). This survives other builders because of `Built`: whoever has unlinked
the temporary name finds only files as new as its own signature there, whichever thread
began them, and whoever has renamed it finds no older one at either name. `Signed` says
the same of the metadata and its `updated_at`, `Unborn` that nothing is kept under a
future key, and `OfThePast` that no signature is of the future. `Counted` bounds the
`updated_at` values by the number of files begun, which the types need. `Alone` is for
`PreparedIsReadable`: as long as no two builds have overlapped, the file a builder
renames is whole.

### The broker and the engines

- `BrokerKeepsPolicy` and `BacktestKeepsPolicy` (`[]NeverBeyondPolicy`): no short position
  without `allow_short`, no negative cash without shorts or leverage. Both rest on
  `OrderKeepsPolicy`: a solvent account's order towards a clamped
  target cannot pass zero lots from above, a capped purchase costs at most the cash
  (`BelowFloor`, `PurchaseCost`), and a sale's fee is covered by what it brings
  (`SaleBringsCash`, which needs `Fee <= Unit`).
- `BrokerTyped` and `ProfitIsComplete` (`[]ProfitAddsUp`): an order opens, extends, reduces
  or reverses a position (`RealizedIs`, `AverageIs`), and in each case the change of cash
  is the change of the position at its average price, plus the profit realised, less the
  fee (`FillBalances`). The average and the profit are fractions in lowest terms:
  `FractionValue` says that reducing one keeps its value, from the fact that the greatest
  common divisor divides both (`GcdDivides`). `BooksKept` clears the denominators.
- `BacktestTypes`, and `DecisionsAreDelayed` (`[]ExecutedAtNextOpen`): the account of the
  loop, which knows only what is pending, is `Held`, recomputed from the rows. The
  invariant is that what is pending is the news of the last row (`Waiting`), where news is
  relative to the last target told (`Latest`); a new row leaves `Held` of the earlier ones
  (`HeldStays`) and adds at most itself to the rows that trade (`TradedGrows`).
- `DrawdownIsDeepest` (`[]DrawdownIsWorst`): the loop keeps one peak and one worst point.
  `Deepest` adds that the peak is the highest of the curve; `DeeperThanAll` is the
  transitivity of comparing drawdowns, which are fractions compared by cross products.
- `CurveIsComplete` (`[]CurveSpansRun`): `Spaced` says where the next point is due;
  `StrideCovers` and `OnStride` are the arithmetic of the rounded stride.

### Splits, preparation and training

`WorkerRunProofs` has three parts. For every request the validators accept and every number
of rows: `SplitsAreChronological` and `WindowsStayInside`. Both are arithmetic: the purge
gap, a ceiling in bars, is at least the longest label, and `DivMonotone` and `DivExact`
carry the rounded boundaries.

For every set of workers, every number of rows, attempts, kills, mishaps and launches, and every schedule of stages that end in increasing order:

- `BestStaysHighest`, `ScheduleIsKept`, `CompletedRunsHaveFiles` and half of
  `WorkerTyped`, from `TrainInv`, which has one lemma per action. None of the three is
  inductive. `Ordered` says that the latest checkpoint is a maximum and not ahead of the
  run, `InOrder` and `Remembered` relate what a restart would know, what the process knows
  and what `best_hybrid.pt` holds; `BestNotLater` says that this file is not later than a
  process or checkpoint that knows of no better score, which is what early stopping needs;
  `Selected` keeps `best.pt` at the file of its metric between two writes.
- `ReadyFindsComplete`, `PublishedStays` and `WorkerTyped`'s half about the cache, from
  `PrepInv`. That a complete directory is never replaced needs that, until a live worker
  loses the lock, one worker at a time is at the published name (`Guarded`) and whoever is
  about to rename has made room (`Room`); that what is published is whole needs who may
  touch which temporary directory (`Made`, `Sourced`), that only the end of a build makes
  one complete (`Written`), and, for a recovered one, that nobody removes it at the same
  time or goes on removing it after the rename (`Calm`, which needs `Undisturbed`).
- `RunsDoNotLookAhead`: an opened directory holds rows the splits accept (`AllSound`), and
  for these the theorems of the first part apply.

### Sessions, strategies and the page

For every set of sessions, strategies and bootstraps and every bound:

- `OneSessionRuns`, `StoppedStaysSilent` and `SessionsTyped`. `SessionInv` says where
  a task can be while its request holds the lock: a session has a task only after its
  request has bootstrapped under the lock, and the request has stopped the current one
  before. Types need it too, because what the page is shown is built from the current
  session.
- `LiveFollowsBatch` (`[]LiveMatchesBatch`): a session decides from the rows its history
  keeps and from what it remembers, a backtest from all of them. `Follows` relates the
  two: the row of the last forecast is the last one the batch schedule forecasts at
  (`NextMultiple`, `ForecastDue`), and what the session heard last, told or still to be
  published, is the batch's target over the same rows. `KeptPredictions` and
  `LivePredicts` say that a deque of the last bars predicts what all the bars predict.
  `SessionMoves` reduces the steps of other sessions and of requests to `Onward`.
- `PageShowsOneSession` (`[]PageIsOneSession`): messages wait in the socket, so what the
  page shows is right only together with what follows. `PageInv` says it of every position
  at which the last bootstrap may stand (0 when it has been shown): the page from there on
  is about one session, the only one with a task (`Owner`, `OfOne`), its bars and fills run
  without a hole to a number (`BarsTo`, `FillsTo`), and that number is the session's own
  or one less while it publishes or when it has failed (`Count`, `Sent`). `InboxGrows` and `InboxShrinks` are
  what publishing and receiving do to these sets.

### What is only model-checked

- All liveness (`UpdateEnds`, `EveryRunEnds`, `BarsClose`, `WorkersEnd`): liveness under
  fairness is outside what the prover handles.
- The lock with killed processes: that it fails is what `lock_stale` shows.
- `LivePaper` beyond the two conditions of `NoneSkipped`: there the code does skip trades.

Induction over data in general cannot be used, because the library's induction theorems
take an operator as a parameter. For one recursive function it can be done by hand: the
least number at which its recursion would fail exists, since the order of the naturals is
well-founded (`LeastNumber`). So `HeldUnfolds` is proved for `Held`, `GcdUnfolds` for `Gcd`
and `BarsUnfold` for `BarsOf`, and after these nothing about recursion is needed.

## 5. Not modelled, and why

- Numerical code is outside a finite-state model: features and labels, networks and losses,
  gradient accumulation, the EMA target encoder, indicators, TimesFM itself, Sharpe ratio
  and volatility, and whether two engines agree in floats.
- Of the trainers: random streams, `metrics.jsonl` as a file, `init_checkpoint`, explicit
  resume paths and a changed schedule on resume.
- Of the live session: trades without ids, which cannot be recognised when they are
  replayed (Kraken sends ids), and quotes, which move the clock in `LivePaper` and otherwise
  only price the account.
- Of the commit lock in `PreparedCache`: a live creator that stalls for two seconds before
  it has written its pid or holds the lock for six hours, and a release or unlink that stays
  denied. These are `MaxHold` and `Faults` of `FileLock`; what they lead to, a live worker
  that loses the lock or a wait that times out, the module has. A removal with
  `ignore_errors` always succeeds.
- Failures that change nothing but who fails: `Popen` raising (`marketlm/jobs.py:177`, the
  queued run is reconciled like one whose API process ended), and a read or write inside
  the file lock that fails for good (`fileio.py:181-210`) or an unlink that fails with
  another error than a sharing violation (`fileio.py:118-119`).
- The page keeps the newest 5000 bars (`App.tsx:92`), more than a run of the model closes. A
  trade in the very millisecond a REST request asks up to (`market.py:174`) is counted with
  the rest of its second, which is left out.
- Histories shorter than the context: `minimum_bars` of the SMA, RSI, WaveTrend and TimesFM
  strategies is a fixed number, whatever their parameters (`live.py:122`); the model takes
  it to be enough. TimesFM's schedule is counted in rows where a session compares timestamps
  (`timesfm/strategy.py:208-212`), which differs over holes in the bars.
- The metadata of a data set has one temporary file for all threads too
  (`datasets.py:173-175`); writing and renaming it is one step.
- Pids are not reused. The two files of a signal-cache key are written in one step, so the
  shared temporary file of two requests with the same key is a listed hazard without a
  property: with them apart, the instance of `Caches` does not fit in a run.
- The registry's reload replaces one dictionary in one call. The TimesFM runtime's lock
  guards a shared model whose results are not modelled; `auto_increase_stride` is left out.
- Retention of fills and results in SQLite is plain insertion. JSON and number parsing,
  logging, argument parsing, settings and page layout are left out.

## 6. Plan

1. `Jobs` with the reconciliation of a run in two steps, reading and writing its status;
   `Caches` with the signal files apart, as a module of its own over an abstract data set.
   The proofs of both modules then follow these steps.
2. The weak points of the conditions, as theorems of their own: what `AnswersAreCurrent`
   keeps of a request whose key has no `updated_at`, and which trades a catch-up of more
   than a page can skip (the oldest pages are counted, the hole is behind them).
