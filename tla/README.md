# A formal model of the market data collector and its platform

TLA+ modules that model this repository, the TLC configurations that check them on small
instances, and TLAPS proofs of their central results. `PROJECT.json` is the machine-readable
index: components, runs, the mapping from definitions to source lines, the mutants that show
each property can fail, findings, hazards and theorems. Paths below are relative to the
repository.

## 1. The system

```
 Binance Vision --HTTP--> Downloader --ZIP files--> Importer --> ClickHouse: klines, import_state
                                                                     |
                        plugin platform (quant_platform) <-----------+--> Grafana
          features, market structure, strategies, sessions, backtests, RL training
```

`docker-compose.yml` starts the containers in that order: the importer when the downloader
has *completed successfully*, `rl-train` when the importer has. Nothing but exit statuses, the
files on disk and the two tables passes between them, so what an exit status 0 and an entry
of `import_state` mean is what the whole system rests on.

| Component | State | Operations | What is hard about it | What makes it correct |
|---|---|---|---|---|
| Downloader (`services/downloader`) | ZIPs on disk, a coroutine per file, the semaphore, the shutdown flag, counters | discover, download all, verify, stream, retry, shutdown | coroutines interleave at every await; kills in mid-write; a CHECKSUM that is missing or cannot be fetched; exceptions `gather` keeps | what it counts as downloaded or skipped is whole; exit 0 is true; whole files are never damaged; runs end; reruns get every file |
| Importer (`services/importer`) | list of ZIPs, a thread per worker, attempts, futures, counters | check, delete month, insert batches, validate, record, unlink, roll back, retry, shutdown | pool threads; a call that fails *after* the server executed it; two levels of rollback; kills between two calls; the loop over futures that stops early | a recorded month has all its rows, always; a finished run leaves no partial month; exit 0 is true; each file is counted; runs end |
| ClickHouse tables (`services/database`) | `klines`, `import_state` | insert, delete by month, record, remove | refused, lost and late answers | (seen through the importer) |
| Plugin manager, registries, dependencies, bootstrap (`core`, `bootstrap.py`, `runtime.py`) | status of each plugin, instance caches, the resolver's copy of the statuses | discover, enforce compatibility, cascade, load each group, materialise, get | statuses copied before a crash; a compatibility context that is built anew after the cascade; cascades along chains and circles; factories that raise | no enabled plugin depends on a disabled one (with the exceptions of section 3); a crash never takes the platform down; loads end |
| Marketplace (`marketplace`) | configuration file, record of installed plugins, packages | reload, enable, disable, install, update, remove | status changed in memory and in the file by different calls; operations of several parts with no undo, in a process of their own | a reload honours the configuration it was given; what is recorded as installed is installed |
| Instance manager (`core/instances.py`) | singletons, scoped instances | get or create, clear, shutdown | (called from one thread, without run ids) | no instance survives a reload |
| Plugins (`plugins`), pipeline builders (`*/pipeline.py`), context and graph (`core`) | envelopes of a `PipelineContext`, registry records, a graph per builder | discover, register, build, run, next bar | a context is reused for bar after bar and shared by several graphs; handlers take whichever envelope they find first; a graph may break off half way | what is emitted for a bar is made of that bar's data; what is disabled never runs |
| Market structure (`market_structure`) | none: recomputed when a bar closes | swings, BOS/CHoCH, gaps, order blocks | what happens to an answer given earlier when the series grows | no event uses a bar that had not closed; reports are not withdrawn, or only young ones |
| Trading (`brokers`, `executions`, `portfolios`, `risks`, `order_flow`, `paper_trading`, `live_trading`) | orders, cash, quantity, fills, equity curve | submit, fill, apply, size, check, start, stop | broker and portfolio each keep their own truth about a fill; `stop` does the trading | cash is never negative; summary, curve and portfolio agree |
| Backtests, environments (`backtesting`, `environments`, `rl_product/env`) | cash or margin, position, entry price, step | step, execute, liquidate, reset | partial closes and reversals; fees on top of a full position; the last bar | worth moves with price and costs only; rewards add up |
| RL training (`rl_product/dataset`, `training`, `evaluation`) | episode cache, futures, time steps, curriculum stage | get, prefetch, choose, collect, train, evaluate | pool threads against the loop and eviction; folds, stages and overlapping windows | folds are measured on bars after those trained on, but for what neighbouring windows share; an episode is loaded once |
| RL network, perception (`rl_product/agent`, `perception`, `observation`) | weights, checkpoints | forward, update, save, load | floating point | - |
| The rest (arithmetic of indicators, features, labels; observability, configuration layers, REST client) | hardly any | arithmetic, formatting, merging | - | - |

### Interactions that matter

* The importer trusts the ZIPs: it validates rows, never the archive's checksum.
* `delete_after_import` removes a ZIP when its month is recorded, and the next run of the
  downloader, which looks at the disk only, fetches it again. The importer then skips it
  (`Redownload` in `Importer`).
* A downloader interrupted by a signal, or one whose listing failed, exits with 0 as well, and
  the importer starts on what is there.
* Strategies, sessions, backtests and the perception of the RL product all call the market
  structure analyzers on the bars they have so far.
* Every plugin, the data services included, is handed out by the plugin manager; a plugin
  disabled by a crash is missing for all its users.
* The command line installs packages beside a running platform: the two meet in the packages, which
  a platform discovers when it starts, and in the configuration file, which a reload reads.
* A graph is run on a context that other graphs, and the bars before, have written to; `FreshRun`
  is about what of that may get into the results.
* The training plugins are called through such a graph, and start the training loop.

## 2. The modules

| Module | Models | State <-> code |
|---|---|---|
| `Importer` | `ImportWorker`, `run_importer`, the four writing statements of `ClickHouseClient`, `open_csv_reader` | `pc[w]`, `job`, `attempt`, `sent` are a thread's place in `_import_file` / `_process_zip` and its locals; `stats`, `shutdown` are the worker's attributes; `queue`, `collecting`, `completed`, `raised` the executor and the loop over `as_completed`; `klines`, `import_state` the tables; `late` statements whose client timed out |
| `ImportLedger` | what the importer promises (abstract) | a month enters the ledger in one step with all its rows and never changes |
| `Importer_proofs` | theorems about `Importer`: the tables, and what a finished run reports | |
| `Downloader` | `run_downloader`, `DownloadWorker`, `discover_monthly_files`, `_verify_existing`, `_stream_download` | `pc[f]`, `attempt[f]` the coroutine of a file; `disk[f]` what is at its path; the semaphore is the number of coroutines in `Holding` |
| `ZipStore` | what the downloader promises to the importer (abstract) | whole files arrive and stay; a run vouches for some, owns up to the others, and says "ok" only if it vouches for all it asked for or was interrupted |
| `Downloader_proofs` | theorems about `Downloader` | |
| `PluginManager` | `PluginManager`, registries, `DependencyResolver`, `CompatibilityChecker`, bootstrap, materialisation, reload, enable, disable | `record[p]` the `PluginStatus` in the registry; `nodes` the resolver's copy made by `batch_load`; `todo` its loop; `instances` the caches; `allowed`, `disabled` the configuration; `found` the plugins whose package is there; `accepts[p]` whose versions the specifiers of `p` accept (the platform, features, dataset builders), `context` the `CompatibilityContext` that enforcement compared with last |
| `Marketplace` | extends `PluginManager` by the `quant-plugins` process | `tracked` is `installed_plugins.yaml`; `command` what runs, with the snapshot `before` and the steps left; `found` changes with pip; `widowed` is a history variable |
| `Marketplace_proofs` | theorems about `PluginManager` alone, then beside the commands | |
| `MarketStructure` | `find_swings`, `detect_bos_choch`, `detect_fvg`, `detect_order_blocks` as operators, over the growing window `run_event_driven_backtest` hands to a strategy | `bars` the klines so far |
| `MarketStructure_proofs` | theorems about `MarketStructure` | |
| `Fractions` | exact arithmetic the trading modules count with | |
| `Account` | what every book promises (abstract) | worth moves by holding times price change minus costs; a liquidation forgives debt |
| `Accounts` | the bookkeeping as operators: spot, backtest and futures execution, paper broker, simulated fills, both portfolios, fixed, Kelly and composite risk, the RL execution model, tracker and step reward, signals and actions | an account is `[cash, qty, entry]`, an outcome says what a trade cost and whether it is counted |
| `Trading` | the nine engines that trade with them: paper and live session, both backtests, spot and futures environment, the RL environment in both markets, the order flow | `phase`, `cursor` the place in `start` / `stop` / `run` / `step`; `curve`, `trades`, `ticker`, `report` the session's attributes and results; `context` the order flow's envelopes |
| `Accounts_proofs` | lemmas about the fractions, and about what each operator of `Accounts` does to the worth of an account | |
| `Trading_proofs` | theorems about `Trading`: books, rewards, reports, and the refinement of `Account` | |
| `Catalog` | one record per plugin of the repository: group, declared inputs and outputs, what its handler reads (with its alternatives in order), emits, may emit, whether it may raise | |
| `Builders` | the graph every builder compiles and the plugins every register function adds | a graph is a sequence of moves: bound, called, maybe, own, check |
| `Pipelines` | discovery and registration in any order, building and running programs of graphs on one context, bar after bar | `ctx[t]` the bar an envelope was made of (0: absent); `record` the registries; `position` the move of `run`; `handed` the plugins given out |
| `Training` | episodes, folds, curriculum, rollouts, the episode cache with its pool threads, walk-forward and ablation | `work` the place in the loop; `seen` the bars the policy was trained on; `cache`, `futures` the attributes of `EpisodeCache`; `loads`, `dropped` history counters |
| `Platform` | composes `Pipelines` and `Training`: the call of a training plugin is the training it starts | a plugin in `KindOf` returns, or raises, when `work` is done |
| `Platform_proofs` | lemmas about the graphs and the training loop, theorems about `Platform` | |
| `Iteration_proofs` | lemmas about loops and induction | |
| `MC*` | constants for TLC | |

One action is the code between two points where another actor can step in: a database call of
an importer thread; the code between two awaits of a downloader coroutine; one turn of a load
loop of the plugin manager; one step of a command; a tick, an order or a step of an environment;
the move of one plugin in a graph; the closing of a bar. Each module keeps the control flow (guards,
early returns, `try` blocks and what each `except` does) and abstracts the data:

* a CSV is a number of batches and a quality (clean; dirty: parsed, but a row strict validation
  rejects; unreadable: opening or parsing raises); rows of a month are numbered by batch;
* a file on disk is absent, empty, a fragment, of the right length with wrong bytes, or whole;
  digests and URLs are not modelled, only whether a CHECKSUM is listed, absent or unreachable;
* a version specifier is the set of those whose version it accepts; a factory either returns or raises;
  the depth-first order of the resolver is any order that puts dependencies first;
* an action is a word, an order or a number, a signal one of the sides or another word (for which the
  futures environment charges the fee and trades nothing);
* prices are small integers, and everything computed from them is an exact fraction: what the
  trading modules show is about the bookkeeping and not about rounding;
* a payload is the bar of the oldest data it was made of; a strategy, a policy and an exchange may
  answer anything;
* a policy is the set of bars it was trained on; an episode is the index it starts at;
* a package brings the same plugins in every version, and pip does all or nothing.

Definitions named as mutants by their comments are variants of a modelled definition with one
mistake. They are used to show that the property listed with them in `PROJECT.json` is able to
fail; no specification refers to them.

## 3. What is checked

| Run | Instance | Shows |
|---|---|---|
| `importer_serial` (11,337 states) | serial mode, a clean month of two batches and a dirty one, two failing calls of any kind (refused, lost or late; a failing record only refused), a kill, two runs, ZIPs deleted after import | types, the inductive invariant, a recorded month is complete, each file counted once, exit 0 is true |
| `importer_parallel` (183,021) | two threads, three months of the three qualities, one failing call, a kill, two runs | a run that finishes leaves no partial month, whatever the killed one left; the importer implements `ImportLedger` |
| `importer_live` (62,105) | two threads, a failing call, failing unlink and check, a kill, interrupts, three runs, under fairness | runs end; without interrupts, reruns record every clean ZIP; no file is left out of a summary |
| `importer_lost_mark` (violated) | the insert into `import_state` is executed but its answer lost, the rollback fails, an interrupt comes before the retry | finding 1 |
| `downloader_checked` (21,389) | published checksums, one slot, two groups, requests refused, broken or garbled, failing discovery, a kill, four runs, under fairness | counted files are whole, the downloader implements `ZipStore`, exit 0 is true, every file arrives |
| `downloader_unchecked` (234,729) | absent and unreachable checksums, file system errors, three files on two slots, a kill, two runs, under fairness | nothing that is counted as downloaded is a fragment, a failed file leaves nothing, whole files are kept, runs end, the inductive invariant (of which `TypeOK` is a part) |
| `downloader_unverified_skip` (violated) | a kill, then an unreachable CHECKSUM | finding 2 |
| `plugins_all_graphs` (607,132) | all 64 dependency graphs of three plugins, and two version matrices (all suit each other; the first plugin does not suit the platform and the last accepts no dataset builder but the first, and no feature), every `plugins.disabled`, a factory that raises, one edit, bootstrap and reload, under fairness; under one of the graphs, three commands of `quant-plugins` beside the platform, which may fail or be killed anywhere | no enabled plugin depends on a disabled one while plugins are loaded, but for what the builder that changed explains; what is disabled as unmet has an unmet dependency; a reload hands out nothing its configuration or its context forbids; safe mode keeps the platform up; loads end; a plugin that is recorded as installed is installed |
| `plugins_crash_cascade` (violated) | a factory raises | finding 3 |
| `structure_streaming` (97,656) | every series of up to seven bars of five shapes, lookback 1 | breaks use confirmed swings only; a candle is one order block; swings, gaps and blocks stand; events settle after `Lookback` bars |
| `trading_engines` (253,857) | each of the nine engines, every series of up to five closes (two for sessions and the RL bridge), any strategy, any fetched price or an error, starts and stops in any order | no spot engine overdraws (the RL tracker by what it paid at most); a report is about its own pass; rewards add up to what was gained; every book implements `Account` |
| `platform_run` (813,492) | every builder with every plugin, five programs of several graphs, discovery and registration in any order, up to two departures from the plain use (a disabled name, an envelope nobody put there), two bars; the training plugins train on up to five episodes under every choice of episodes and every schedule of the pool | a disabled plugin never runs, unless it was registered past discovery; declared inputs are enough to get results of this bar's data; a fold shares with its training no more bars than neighbouring episodes do; an episode is loaded once per drop |

### Bounds, and why they are enough

* `MaxFaults` bounds failing calls in a behaviour: two are needed to make a call fail *and* its
  rollback fail. `RetryCount = 1` makes the first attempt, the retry and giving up distinct.
* Two runs and one kill make a run start on what a killed one left; the liveness runs have one
  run more than kills and failures can spoil. `CleanZipsGetImported` and `EveryFileArrives` are
  claims about these bounded troubles: with more failures than retries nothing is promised.
* Two workers are enough for two threads to meet on the tables; the month of a third file
  is taken over by a thread that has already finished one. The theorems have no such bounds.
* Three files on two slots make one coroutine wait; two groups let one discovery fail.
* Three plugins in one group give every chain, fork and circle of length up to three; the
  second group is empty and exercises the loop over groups. Cross-group dependencies are ignored
  by the resolver (`Known`) and are not instantiated.
* A swing with its window, a break of it and a bar after that take five bars; seven let a level
  be broken, replaced and broken again. The same module was also explored with `Lookback = 2`,
  three shapes and nine bars.
* Three commands are an install, an update or a removal of what it brought, and another install; both
  plugins that are not built in come with one package, so that a removal has a sibling. Commands do
  not look at dependencies, so they run under one graph and one matrix of versions
  (`Surroundings`).
* Five closes of two prices give every order of rises, falls and flats; with two sizes a position can be
  opened, enlarged, reduced, reversed and closed. The leverage is 1, so that a short can be covered at a
  price that leaves its entry negative. `SessionBars = 2` because the exact fractions of a
  session outgrow TLC's integers after that. `MaxCalls = 5` is start, stop, start, stop and one more; fees
  and slips are large, so that they decide whether an order is affordable.
* `MaxBars = 2` in `platform_run` makes an envelope of an earlier bar exist; `MaxDepartures = 2` because
  the fallbacks of the klines resolver need two envelopes to be missing. The trainer runs once
  (`TrainedBars = 1`) and where no plugin is configured away (`TrainedDepartures = 0`); otherwise the call just
  returns or raises, nothing of the loop being kept between two calls.
* `CacheSize = 1` instead of the code's four makes eviction happen among five windows; `Target = 5` with
  `RolloutSteps = 2` gives three gets, the last of a short rollout, and so a reload after a drop. Strides
  1 and 2 with windows of length 2 overlap and do not; one bar is too few for an episode. A
  curriculum with a first stage of two steps and a second without end is run as well as none.
* Symmetry is not used: the files of an instance differ.

`CHECK_DEADLOCK FALSE` is set everywhere: each system stops when its runs, loads or bars are
used up.

### Fairness

`Importer!Fairness`: threads are scheduled and their database calls return, because the client has a
timeout (weak fairness per worker), and the main thread goes on when its threads have.
`Downloader!Fairness`: the event loop runs every coroutine that is ready and every request ends
(timeout). The semaphore wakes *some* waiter: fairness is on the set of them, not per file.
`PluginManager!FairSpec` and `MarketSpec`: a call of the platform that has begun runs to its end; a
command may stop anywhere. `Trading`, `Platform` and `MarketStructure` state safety only. `RerunSpec`
adds that somebody starts the service again, which is what an operator or a schedule does; only the two
"everything arrives in the end" properties need it. Signals, kills, failures and late statements are owed
by nobody.

### Findings

1. **A recorded month without rows** (`services/importer/worker.py:251`). The record is written inside
   the `try` whose handlers delete the month. If ClickHouse executes that insert and the answer is lost,
   the rows are deleted, and if the rollback that should remove the record fails too the month is
   recorded and empty. The next attempt, which does not look at the table, imports it again; if there is
   none, because an interrupt stops the loop first (`worker.py:152`; the run's trace, with exit status 0)
   or the retries are used up, it stays so, and every later run skips it. The docstring says only fully
   successful imports are recorded.
2. **Unverified files are skipped as valid** (`services/downloader/worker.py:182`). A CHECKSUM
   request that fails makes a fragment of a killed run a "valid" ZIP.
3. **A crash disables no dependent** (`core/manager.py:227`). The cascade runs on statuses copied
   before the crash and its first result is thrown away.

### Exceptions the properties name

Where the code does something else in one case, the property says so by name, and the case is in the
model:

* `MisbookedOrders` (`Trading`): reducing part of a futures position (`environments/futures.py:112`,
  `:130`) closes it and opens the rest on the other side, with an entry price that adds notionals of
  opposite sides. Equity then changes at an unchanged price. Buying back part of a short does
  not change equity, but after a rise it leaves a negative entry price, and the next sell takes its
  `abs()` (`:130`): equity jumps again. These orders (`Misbooked`) are modelled; with `MisbookedOrders = TRUE` TLC finds
  `ImplementsAccount` violated, so the run has it `FALSE`. The instance reaches negative entries (sell
  1/2 at 1, buy 1/2 at 2), and without the case of the sell that follows the run fails;
* the debt of the RL tracker (`NeverOverdrawn`): `rl_product/env/execution.py:117` lets a buy take all the
  cash and charges the fee on top;
* `overridden` (`DisabledNeverRuns`): a register function of a builder looks only for a missing name
  (`plugins/domain/__init__.py:120`), so one that is called before discovery enables what
  `plugins.disabled` names;
* `Undeclared` and `Returning` (`FreshRun`): `smc_ict`, `simulation_execution` and `fixed_risk` read
  envelopes their metadata does not declare, and the plugins of eight groups return results
  instead of emitting what they declare;
* `BuilderChanged` (`ResolvedIsClosed`): `batch_load` builds the compatibility context anew
  (`core/manager.py:209-211`) from the first dataset builder that is enabled *then*, after the cascade of
  the resolution (`bootstrap.py:83`, "enforce compatibility and cascade disabled dependents"). If the
  builder the resolution compared with was disabled by it, a plugin that suited that builder and does not
  suit the next one is disabled only now, without a cascade, and those that depend on it are loaded
  without it. TLC finds it with three plugins when the proviso is dropped: the first builder is
  incompatible with the platform, the second accepts the version of the first only, the third depends on
  the second. `ReloadRespectsConfig` accordingly speaks of the context of the resolution (`Permitted`);
* the stride (`OverlapIsBounded`): windows overlap if the stride is below the episode length, and the
  last training window of a fold then shares bars with its first test window. The configurations for real
  data, `config/training/clickhouse.yaml:7-8` and `template.yaml:7-8`, ship a length of 500 and a stride
  of 250 (and four folds, `clickhouse.yaml:44-46`): up to 250 bars, half an episode, of what
  `evaluator.py:23`, `walk_forward_rl_eval/__init__.py:16` and the `oos_*` keys of
  `evaluation/walk_forward.py` call out-of-sample were trained on. The property holds for every stride,
  says how far the overlap reaches, and promises that there is none only if the stride is at least an episode. The
  context-only variant of the ablation (`evaluation/ablation.py:188`) trains on all episodes and reports
  the last quarter of them as `oos_sharpe`; it has a kind of its own in the model, and no property speaks
  of it;
* `widowed` (`TrackedIsInstalled`): removing one plugin uninstalls the package of its siblings, which stay
  in the record file and can then be neither updated nor removed.

### Observations

None of these contradicts a document of the repository.

* A month a killed run left half inserted stays so if, in the next run, `is_file_imported` raises
  for it in the pool (`worker.py:134`), which is why `importer_parallel` has `CheckMayFail = FALSE`.
* An event of the market structure can vanish, or appear, up to `Lookback` bars after the fact: a
  bar that breaks a level and turns out to be a swing itself loses its break. `EventsSettle`
  states how far this reaches, `BreaksAreConfirmed` that it never looks ahead.
* A filled order is counted by a session although the portfolio refused it for lack of cash
  (`live_trading/session.py:138`); selling without a position costs its fee (`portfolios/single.py:61`).
* A second `stop` of a session replays the bars on the portfolio the first one left; `CleanPass` speaks
  of the first one after a start.
* An install that breaks off after pip cannot be repeated: the next process finds the plugins in its
  snapshot and reports that nothing new was discovered (`marketplace/service.py:154`), `update`
  does not find them in the record and `remove` leaves the package. In the model they stay in
  `found` outside `tracked` for good.
* `update` reads the new version from the registry of its own process (`marketplace/service.py:187`), which
  keeps the record it has: outside the tests, whose pip is a stub that replaces the
  record, the old version is written again. Versions are not modelled.
* The record file and the configuration are truncated in place; a kill while they are written empties
  them (`Broken`).
* `evaluation/walk_forward.py:95` resets a reward normalizer nobody uses; `--steps 0` of `quant-train` means
  the configured budget; the `split` of an episode is read by nothing.

## 4. What is proved

All proofs are checked by TLAPS for every value of the constants that satisfies the modules'
assumptions: any number of ZIPs, workers, files, groups, plugins, bars, episodes, retries, failures,
runs and kills. TLC evaluates each assumption in a run.

| Module | Theorems state | Hypotheses |
|---|---|---|
| `Importer_proofs` | `TypeOK`, `IInv`, `MarkedIsComplete`, `ImplementsLedger`; `NoFileIsForgotten`, `EveryFileIsCounted`, `ExitOkMeansImported`, `FinishedRunIsClean`; `WorkIsBounded` | see below, none for `TypeOK`, `NoFileIsForgotten` and `WorkIsBounded` |
| `Downloader_proofs` | `TypeOK`, `DInv`, `VerifiedIsWhole`, `CountedIsSettled`, `WholeFilesAreKept`; `ExitOkMeansDownloaded`, `ImplementsStore`, `ExitOkStaysTrue`; `WorkIsBounded`, `SomebodyGoesOn` | `Checked` and `~FsMayFail` for the second group, `Checked` within `VerifiedIsWhole`, none for the others |
| `Marketplace_proofs` | `MarketTypeOK`, `ResolvedIsClosed`, `OnlyDependentsAreUnmet`, `SafeModeContinues`, `ReloadRespectsConfig`, `TrackedIsInstalled`; `CascadeCloses`; `LoadsNeverStall`, `LoadsGetShorter` | none |
| `MarketStructure_proofs` | `TypeOK`, `BreaksAreConfirmed`, `EachCandleOnce`, `ReportsStand`, `EventsSettle` | none |
| `Trading_proofs` | `TypeOK`, `NeverOverdrawn`, `RewardsAddUp`, `CleanPass`; `ImplementsAccount` | the rates of `AccountsAssumption`; `~MisbookedOrders` for `ImplementsAccount` only |
| `Platform_proofs` | `PlatformTypeOK`, `DisabledNeverRuns`, `OverlapIsBounded`, `LoadedOnce`; `FreshRun` | none; `WellDeclared` scripts for `FreshRun` only |
| `Accounts_proofs` | lemmas: exact fractions, and what every fill, execution and reward does to an account | the same rates |
| `Iteration_proofs` | the lemmas about loops that the others cite | |

**Loops.** A for-loop of the code is a recursive function on `0 .. n` whose value at `i` is the state
after `i` turns (`Passes`, `Rows`, `Scans`, `Blocks`, ...). The induction theorems of the library take
an operator as a parameter, which none of the provers instantiates, so `Iteration_proofs` derives
what is needed in terms of sets: a non-empty set of numbers has a least element
(`LeastNumber`), a set that holds 0 and is closed under the next number up to `n` holds all of them
(`UpTo`), and the function that describes `n` turns of a body exists (`LoopExists`). A lemma
`...Def` then shows for each loop of the models that its CHOOSE is such a function.

### Importer

`CleanFailures` says: a failing insert into `import_state` had no effect; an unlink that fails
cannot follow a record (`worker.py:163`, or ZIPs are kept); no ZIP is listed twice. Finding 1 shows
what happens without the first. Deletes and kline inserts may be refused, lost or (inserts)
executed late, at any time, even in a later run.

`MarkedIsComplete` is not inductive: a step may delete or insert rows of a recorded month unless
one knows that nobody is working on such a month. `IInv` adds: only a month's own rows are stored
or under way (`RowsAreGenuine`), so a late insert into a complete month changes nothing; a job is
in the queue or with one worker (`JobsAreOwned`), so no other thread deletes its rows; a worker in
an attempt works on an unrecorded month (`AttemptIsUnrecorded`), so deletes hit no recorded one;
what it has sent is stored (`SentIsStored`), so that the record finds all rows. The proof of the
step has one lemma for what a worker leaves alone in other months (`OtherZips`), one for the steps
inside an attempt, one for those that end it, and one step per remaining action. The refinement
follows: by `IInv`, recorded months only grow (`LedgerGrows`), one at a time and complete.

What a finished run says needs three invariants more. `CountInv`: in a run that was not interrupted the
files counted as imported, skipped or failed and the pending ones (in the queue, in work, in a future
that raised) together are at least the files listed, and exactly as many unless an unlink can fail after
a record (such a file is counted twice, as imported and as failed). With no file pending at the end this
gives `FilesAreNeverForgotten` without a hypothesis and `FilesAreCountedOnce` under that one. `ExitInv`:
a file still on disk that is no longer pending is recorded, or some file is counted as failed; with
`MarkedIsComplete` it gives `ExitOkIsHonest`. `TidyInv`: no statement is late, no future raises, a failed
attempt has emptied its month, and the month of a file that is no longer pending is recorded or empty; it
gives `FinishedRunIsAlwaysClean` and needs `EffectiveRollbacks`: rollbacks are on, the lookup in
`import_state` succeeds, no insert comes late, and either a failing delete still takes effect or at most
one call fails.

### Downloader

`DInv` ties the content on disk to the place of the coroutine (`AttemptMatchesDisk`: an attempt
that requests starts from no file, one that streams has a fragment, ...), the attempt number to it
(`AttemptsAreCounted`), and says who ends uncounted (`EndsAreExplained`). It is proved file by file:
`OtherFiles` (a coroutine disturbs no other file) and `OwnFile` give the step.

With published checksums and a file system that does not fail the downloader implements `ZipStore`. The
store is the set of files that are whole on disk; asked, vouched and missed files are those whose
coroutine exists, has counted its file as downloaded or skipped, or as failed; the status is `exit` when
no process runs. `OwnEffect` says what a coroutine does to its file as the store sees it: it never loses
a whole one, counts a whole one as such and only another one as failed, because by `DInv` every place
from which `Fail` is reached has a file that is not whole. `CoroutineMaps` turns that into `Receive`,
`Vouch`, `Miss` or a stutter, `RunMaps` maps the rest of the actions one by one. `StoreIsSound` is an
invariant of `ZipStore` alone, and `ExitOkStaysTrue` follows from the two: what exit status 0 says is
true not only in the step of `Finish` but until the next run begins. Without the two hypotheses the
downloader does not implement the store (finding 2 is a counterexample; a file that cannot be
removed is another).

What can be said of `RunEnds` without fairness is proved for every value of the constants: `Work(f)` is
a number, at most `6 * RetryCount + 9`, that every step of the coroutine of `f` lowers and no step of a run
that downloads raises (`WorkIsBounded`); and while a coroutine has not ended, one holds a slot or a slot is
free for one that waits (`SomebodyGoesOn`). That a coroutine with a slot does take its step is what
`Fairness` says, and that the run therefore ends is left to TLC. The importer has the same bound:
`Work(w)` of a worker thread, at most `(Batches + 8) * (RetryCount + 1)` from the moment it takes a file,
and a queue that only shrinks.

### Plugin manager and marketplace

`CascadeCloses` is about `cascade_disabled` alone: whatever the graph (circles included) and whatever the
order of its turns, the loop ends after at most as many passes as there are plugins, because a pass that
changes something leaves fewer enabled ones, and then no enabled plugin depends on a registered one that
is not. `PInv` carries that through the load: as long as nothing has raised, enforcing compatibility with
the context of the resolution once more would change nothing, and the builder is another one only if that
of the resolution is disabled (`EnforcedAlready`). Nothing a load does enables a plugin, and so the first
enabled builder stays while it is enabled (`LeadStays`) and, once disabled, never comes back (`Kept`):
what `Recheck` disables before a group either did not suit the old context, which is out of the question,
or is what `ResolvedIsClosed` names. During a reload no status, copy, cache or instance is of a plugin
that the configuration read at that reload forbids (`ReloadIsHonest`). `MInv` adds the record file: at
the pip step of a removal nothing of what is left is tracked any more, and what an installation has still
to register or to record was found by discovery (`CommandInv`), which is what makes `TrackedIsInstalled`
inductive when a command breaks off or is killed.

Of `LoadEnds` all but the fairness is proved. The group that is loaded has no circle, neither the
statuses a factory that raises leaves behind nor a command change that (`GroupIsAcyclic`,
`CirclesStay`), and so some plugin left always has its dependencies behind it (`LoadsNeverStall`); each
step ends a phase, takes a group or takes a plugin, and nothing else touches what is left
(`LoadsGetShorter`). That the platform goes on with the load it has begun is the fairness.

### Market structure

`Seen` and `Kept` say what the two loops hold after `i` bars: the active high and low are swings of the
series, each event is of a swing whose window had closed; each block is of an earlier candle, all
different. The heart of `BreaksWaitForSwings` is `BreaksLate`: within the window of a high no bar is
higher, so none closes above it. For what stands when a bar closes, `Grown` shows that swings with a
closed window stay swings and that no others appear among the old ones; the loops then agree on the old and
the new series as far as they look at the same bars (`ScansAgree`, `BlocksAgree`), and `GoesOn` says that
later turns append only events of later bars.

### Trading

The books are kept in exact fractions, and the provers know integers only. `Accounts_proofs` builds the
bridge. `GcdDef` shows that Euclid's algorithm, a recursive function, is what its equation says (the
remainder is below the divisor), `GcdScales` and `Cancels` that reducing removes a common factor, so that
`Frac(n, d)` stands for the ratio and nothing else: two ratios reduce to the same fraction exactly if
they are equal (`FracEqual`), and sums, products, quotients and order may be computed before or after
reducing (`FracPlus`, `FracTimes`, `FracOver`, `FracLess`). An equation or inequality with products of
unknowns is beyond the SMT solver; one with sums only is not. `Linear` therefore says that any eight
fractions have a common denominator: there is a reading of them as integers under which ⊕, ⊖ and the
order are those of the integers. The proofs of the books name every product that occurs, rearrange them
with `Associates` and `Distributes`, and read the rest as linear arithmetic.

On top of that, one lemma per operation of `Accounts` says what it does to the account. A fill is *fair* if the
worth at the price of the bar changes by the recorded cost and by nothing else: `BuyFillIsFair` and
`SellFillIsFair` for the portfolios, `TickIs` for what broker and session make of them,
`FuturesLongIsFair` and `FuturesShortIsFair` through averaged entries and reversals,
`EnvironmentStepIs` and `BridgeStepIs` for the environments with liquidation and margin.

`TradingInv` is the inductive invariant:

* `PassInv` moves cursor, points, trades and the last point of the curve together through starts, ticks,
  stops, failures and the bars of a backtest, and keeps account and report together until the next
  start or stop; it needs nothing of the bookkeeping (`PassesAreCounted`);
* `BoundsOK` bounds cursor, points and calls, also when a session is stopped again and again;
* `BooksOK` says what may be in the books: no cash and no quantity below zero in the spot engines and the
  flow; in the RL tracker's spot market no debt beyond the costs paid, which is what `NeverOverdrawn`
  claims; the cash of the futures environment at least zero unless misbooked orders may be sent, without
  which the sign of its next fee, and so of its cost, is not known; what the order flow remembers is a
  state some fill left;
* `RewardsOK` is `RewardsAddUp` with a peak that is positive, which the drawdown divides by;
* `VectorizedOK` says that the last point of the curve is the worth of the account at the last bar, because
  rebalancing moves no worth.

`TypeOK`, `NeverOverdrawn`, `RewardsAddUp` and `CleanPass` follow. For `ImplementsAccount` the mapping is
`Valued(acct, mark)` for the worth: a start or a reset is an `Open`, every fair outcome a `Move`, a liquidation
a `Liquidate`, and the order flow, whose portfolio no engine values, stutters.

`AccountsAssumption` and `TradingAssumption` are what the theorems assume of the constants, each as the
code's defaults have it. Fees, slippage, spread and maintenance are rates of some basis points, far below
1; the initial cash, the leverage and the share of the equity a session may risk are positive, and that
share is at most 1; a price less its slippage is a price (for the RL model also for the largest change of
exposure, 2); the fee is less than what an order sells and, with leverage, than the margin. A bar has a
positive price. A strategy asks for a share between 0 and 1: the strategies of the repository give no
size, which means 1.0 (`backtesting/source.py:49`), or a target that is clipped
(`rl_product/inference/strategy.py:16`). The environments accept anything, since `parse_action` clips.
The bounds are numbers, with room for a call per episode. Nothing is assumed of the series, the signals,
the tickers or the order of calls.

### Platform and training

`PipeInv` strengthens `DisabledNeverRuns` by what *could* be handed out (`EnabledIsAllowed`): a plugin is
enabled in the registry against `plugins.disabled` only if a register function put it there.

`FreshRun` is about plugins and graphs, which are constants of the model, and is not true of any set
of them. `RunsAreFresh` has the condition as its hypothesis: `WellDeclared(s)` of every script `s`, the
moves of a program in a row, says without mentioning a run that

* what a move declares to emit is emitted by itself or later in its graph, with no check in between that
  could end the graph and by something that is not skipped for a missing envelope (`Due`);
* whatever a move reads was certainly emitted before it in its graph, or is declared as an input by a
  move that has been made, and is not something the graph is still to emit (`ReadsDeclared`); or the
  move emits nothing and nothing comes of what it returns (`Harmless`).

TLC evaluates it for all plugins and builders of the repository (`Declared` in `MCPlatform`); with `ema`
and `rsi` missing from the inputs of `rule_based`, say, it is false. The theorem then holds for any
number of bars, exclusions and missing envelopes, and `FreshRun` needs the invariant `FlowInv`: which
moves have been made for sure and what they have emitted, that an envelope nobody has emitted in this bar
is the one the bar began with (`Settled`), and, as long as the needed inputs of the bar are fresh, that
everything emitted is, that what the calls of this graph returned is as well unless no builder will make
anything of it, and that what was declared is emitted or `Due` (`FreshSoFar`). The step splits on what a
move does: a handler that runs reads fresh data (`FreshReads`), a skipped one owes nothing, a rejection
is at a check, across which nothing is due, and what raises completes no bar. That graphs follow one
another in a script (`RowGraphs`) is an induction over its rows.

`TInv` of `Training`: what the policy of a trial has seen lies in the training set of that trial, which
the episodes chosen cannot leave; an episode was loaded once for every time it was dropped, and once more
exactly if it is in the cache or waits in a future, never in both. The theorems are about `PlatformSpec`,
where a training plugin's call in a graph starts the loop and anything else may happen between two of its
steps; `OverlapIsBounded` follows from where two episodes of the builder start (`FoldOverlap`): each a
stride after the one before, so the first bar of a test window comes a stride after the start of the last
training window.

### Only model-checked

* Every liveness property: `RunEnds`, `CleanZipsGetImported`, `EveryFileArrives`, `LoadEnds` (fairness
  and ENABLED are outside the prover). The bounds on work behind the two `RunEnds` are proved, and so
  is what `LoadEnds` owes to the order of the loads.
* `Declared`, the hypothesis of `RunsAreFresh` about the plugins of the repository: a finite check, which TLC
  makes before the run.
* The violated properties of the findings.

## 5. What is not modelled, and why

`PROJECT.json` lists every component with its reason. In short:

* floating-point arithmetic (indicators, labels, ratios, perception, the network and PPO, the reward
  normalizer, the entropy schedule) is out of reach; which envelope it is fed with is in `Catalog`;
* checkpoints and the model registry: saving and loading tensors; the graph hash a checkpoint is
  checked with is left for later;
* `EpisodeCache.clear` and `close`, `cancel_order` and `get_order` of the paper broker, scoped instances and
  the locks of the instance manager, `StateStore`: nothing in the repository calls them, or from
  one thread only;
* the REST client (one request per call, no retry), configuration merging and schemas, images and
  dashboards have no state to speak of; tests are read, not modelled;
* versions and version specifiers beyond who accepts whose version, and those of packages;
  two commands of `quant-plugins` at once; the contents of a manifest: it fits, or the command breaks;
* within the data services: the read queries of the ClickHouse client; the URLs and the listing's XML; a
  configuration that repeats a symbol (two threads or coroutines on one file), which the theorems
  exclude by assumption; ALTER DELETE mutations that the server executes late.

## 6. Plan

In order of importance:

1. **Composition of downloader and importer** in the order of the compose file: the importer reading
   the `ZipStore` the downloader implements; a repeated symbol as a hazard.
2. **Checkpoints**: train, save, register, deploy on the same or another graph.
3. **SMC signals** on top of `MarketStructure`: a signal is about an event that is young enough to
   vanish.
