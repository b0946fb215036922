# A verification of alphac

alphac (`src/alphaforge`) is a systematic trading engine: it ingests market
data, computes features and signals, sizes a portfolio under risk brakes, and
trades it on paper through loops that have to survive crashes, naps of the
machine and operators; what it may try at all is governed by a ledger of
reserved trials. This directory holds TLA+ models of the parts where a mistake
is silent and expensive: the paper loop that trades and recovers, the equity
sleeve's cycle against its broker, the ingestion into the lake, the trial
ledger, and the event loop of the backtester. TLC checks them on small
instances, and TLAPS proves their main properties for every value of the
constants.

Paths below are relative to the repository; `live/loop.py` means
`src/alphaforge/live/loop.py`, `live_cycle.py` is `scripts/live_cycle.py`.

## 1. The system

### 1.1 Inventory

| package | files / lines | state it keeps | operations | status |
|---|---|---|---|---|
| `live` (loop, store, alerts) | 4 / 3224 | SQLite `trading.db`: cycles, orders, fills, position and equity snapshots, paper_state, ladder and target rows; the process's memory | boot recovery, one cycle per bar, persistence | modelled but for funding, universe refresh and counters |
| `execution` (paper broker, order manager, reconciler; Alpaca and ccxt adapters, options, futures, borrow, financing) | 17 / 6697 | the paper account in memory; the account at the venue | submit, place, replay, reconcile; cancel, list | the first three and the Alpaca adapter |
| `risk` (ladder, kill switch, pre-trade, staleness, book ladder, crowding, limits) | 8 / 1443 | ladder in memory, sentinel file, published multiplier file | update, engage, check | ladder, sentinel, pre-trade's effect |
| `portfolio` (strategy, optimizer, overlay, discretize) | 8 / 2598 | the strategy's memory between bars | decide targets, turn targets into orders | discretize; numerics left out |
| `core` (time, types, instruments, calendar, symbols) | 8 / 1792 | instrument records in SQLite | bar arithmetic, value types | bar arithmetic and order types |
| `cli` (`af paper run`, data, universe, ops, research commands) | 12 / 3896 | none | builds the objects of a process | entry points of `paper` |
| `data` (ingest, lake, quality, sources, universe) | 30 / 10315 | Parquet lake, watermark and run-log SQLite, universe store, lock file | backfill, update, daily files, write; read as of, rebuild | ingestion and the writer; readers, quality, universe not |
| `backtest` (engine, ledger, fills) with `costs`, `analytics` | 14 / 7229 | the book, queued orders and pointers of one run | corporate actions, fill, fund, mark, decide, recall | the engine's loop; money, costs and reports not |
| `validation` (trial reservation and budget, experiment ledgers, admission, transparency chain, statistics) | 19 / 5329 | append-only ledgers and JSON packets | reserve, record, seal, waive; admit, publish | the reservation protocol; statistics and publication not |
| `ops` (backup, clock, slippage) | 4 / 996 | backup directories | backup, restore drill, prune | not modelled |
| `foundry` | 7 / 1810 | SQLite catalogue of receipts | migrate, record | not modelled |
| `features`, `signals`, `labeling`, `ml`, `regime`, `research`, `config` | 54 / 15484 | caches, model registry | numerical pipelines | not modelled: real-valued, without a protocol to enumerate |
| `scripts`, `deploy` | | fills and health tables of a sleeve; reservations, registries, packets | the sleeve's cycle; author, run, seal a batch; timers and locks | the cycle and the governance scripts; exports and reports not |
| `tests`, `docs`, `artifacts`, `publication` | | | evidence | used as the reason for assumptions |

### 1.2 How the parts interact

**The paper loop** is one process. `scripts/vps/trade.sh` starts `af paper run --once`
each hour behind a lock directory; the launchd template starts
`af paper run --forever` and keeps it alive. `cli/paper_cmds.py` builds a
`PaperBroker` without state, an `OrderManager`, a `Reconciler`, a
`DrawdownLadder` and the `LiveLoop`, which calls them synchronously; the only
thing that outlives the process is the store, and the only thing an outsider
changes is the sentinel file `var/KILL`.

* **Boot** (`recover_on_boot`): restore the broker from the latest paper_state
  blob; replay the store's fills newer than that blob; fail every cycle that is
  still `running`; replay the equity curve through the ladder; on a fresh boot
  stop here; otherwise compare the books and, where the store's fills back the
  difference, adopt the broker's book as a snapshot keyed at `now`; resolve
  every open intent; halt unless the books agree.
* **Cycle** (`run_cycle`): open the row of the bar unless it is terminal; look
  at the sentinel; ingest, decide, discretize, check; `place` the batch order by
  order (intent row, submit, result rows); save positions, equity and blob in
  three transactions; stamp the row. Any exception stamps `failed`, a risk
  breach `halted`, and no cycle is retried.

**The equity sleeves** trade through `live_cycle.py`, one process per tick
(`scripts/mf_tick.sh`), against an Alpaca paper account that goes on without it:
the cycle cancels what earlier cycles left open, snapshots the positions, sizes
its targets, re-reads the kill switch, records what became of earlier orders in
its `fills` table and submits the deltas.

**Ingestion** fills the lake that everything reads. Hourly timers
(`scripts/vps/ingest.sh`), the live loop at the start of each cycle
(`DataUpdater.update`) and operators start jobs that exclude each other by an
`flock`; each walks its series in batches: fetch, merge the rows into the files
of the lake one by one, advance the watermark.

**Research governance** decides who may compute the returns of a hypothesis.
Scripts reserve identities (alone, or as an atomic batch with a sealed registry),
a runner validates the reservation, evaluates and records it on the ledger, a
sealing script closes it, and the owner may amend the budget or waive a packet;
they share nothing but files.

**The backtester** is one pass over the closes of the bars: corporate actions,
fills of the orders queued at the previous close, funding, marks, terminal
histories, new orders, borrow recalls.

### 1.3 What is hard about it

Every durable write is its own transaction, so a crash can fall between any two
of them, and between the broker's fill and its record. The broker's memory is
ahead of the store after a write that raises, and behind it after a restart.
The clock moves while a cycle runs and while the process is away. The ladder has
to be rebuilt by every `--once` process out of rows that are not quite what the
ladder was fed. The sleeve's broker fills orders between any two of its calls, an
answer may be lost, and a cancel is not an order closed. Two ingestion jobs race
for a lock, fail in the middle of a file, and skip on the next run what the
watermark says is there. A batch of trials is run by a process that may die
after its first member, while reservations, seals, amendments and waivers go on
beside it. A backtest carries orders and positions across splits, gaps and ends of
history that arrive in any combination. `PROJECT.json` lists these hazards at their lines, with the
properties that cover them and the ones nothing covers yet.

### 1.4 What makes the parts correct

* Store and order manager: intent before submit, one execution per order,
  statuses that are final.
* Paper broker: an order id executes at most once, whatever is retried or
  replayed; the saved blob with the store's newer fills is the account.
* Reconciler: an executed order is never called rejected; every intent gets a
  result; the gate opens on agreement only.
* Live loop: a bar is traded at most once and never late; `ok` means durable; a
  crash anywhere leads to a state from which some boot trades again.
* Ladder: the tier fits the drawdown, does not flap, and survives the restart.
* Sleeve cycle: repeat runs converge on one book; an order's outcome is recorded
  once the record has passed it; a record that cannot be kept stops the trading; no
  order crosses zero.
* Lake and ingestion: a stored row stays, a forming bar is never stored, a
  watermark rises only over what is stored or knowingly passed over, and every
  known series catches up.
* Research governance: an ordinal is a position of the ledger, a batch stands
  together, nothing new is looked at behind an undecided identity.
* Backtest: shares of two split bases never meet, nobody is stranded in a dead
  market, dividends and funding follow the holding, a recall is owed until bought.

## 2. The modules

| module | models | state |
|---|---|---|
| `TradingTypes` | bars, order ids, statuses, quantities in signed lots | none |
| `TradingStore` | `live/store.py`, one operator per transaction | `cycles`, `orders`, `fills`, `positions_snapshots`, `equity_curve` (its keys), `paper_state` |
| `PaperBroker` | `execution/paper.py` | `acks`, `broker_fills`, `positions` |
| `OrderManager` | `place()` step by step | `batch` (orders not yet handled), `order`, `om_step`, `booked` (the fill of this submit) |
| `Reconciler` | comparison of the books, resolution of intents | none of its own |
| `LiveLoop` | boot, `run_forever`, `run_cycle`, exceptions, crash, clock, sentinel; extends the five above | `pc`, `cycle_ts`, `outcome`, `equity_drift`, `deadline`, `kill`, `now`, and the counters `crashes`, `errors` |
| `LiveLoopProperties` | the properties, the fairness and the refinement mapping | |
| `OrderOutcomes` | the abstract promise about an order | `outcome` |
| `LiveLoopInvariant` | the inductive invariants (`IInv`, `NetInv`) | |
| `LiveLoopProofs` | theorems about `LiveLoop!Spec` | |
| `DocumentedBehaviour` | the statement of a docstring that the loop does not keep | |
| `OrderReplay` | `OrderManager` and `PaperBroker` without the loop: `place()` called again and again, transport retry | adds `attempt`, `calls`, `raises`, `aborted` |
| `DrawdownLadder` | `risk/monitors.py`, `update` as a function | none |
| `LadderRestart` | the ladder over fresh processes and the equity curve | `phase`, `ladder`, `replayed`, `curve`, `late`, `syncs`; history `marks`, `lived` |
| `LadderRestartProofs` | theorems about `LadderSpec` | |
| `OrderReplayProofs` | theorems about `ReplaySpec` | |
| `DeltaOrders` | the arithmetic of `_delta_orders` and of the sizing in `live_cycle.py` | none |
| `LiveCycle` | `live_cycle.py` `main()` over `execution/alpaca_broker.py`, with the venue and the operator | process: `phase`, `stale`, `snap`, `queue`; venue: `orders`, `pos`, and `floor` (what is older than the lookback); tables: `fills`, `failures`; `kill`, `cycles`; history `raised`, `uncounted`, `excused`, `lingered`, `hull` |
| `LiveCycleProofs` | theorems about `CycleSpec` and about the legs of any delta | |
| `Lake` | abstract: what lake and watermarks promise | `stored`, `mark`, history `passed` |
| `Ingest` | `data/ingest/backfill.py`, `equities.py`, `checkpoints.py`, `data/store/writer.py` | the lake's, `holder` of the lock, per process `pc`, `asked`, `todo`, `cursor`, `rows`, `left`, `image`, `gaps`; `clock`, `manual`, `faults` |
| `IngestProofs` | theorems about `IngestSpec`, the refinement of `Lake` among them | |
| `TrialLedger` | `validation/trial_reservation.py`, `trial_budget.py`, `experiments.py` and the scripts that author, promote, run and seal | `sealed`, `reservation`, `ledger`, `results`, `packet`, `closed`, `waiver`, `amended`, `author`, `run`; history `resealed` |
| `TrialLedgerProofs` | theorems about `TrialSpec` | |
| `Backtest` | the loop of `backtest/engine.py` over its ledger, borrow and market-status providers | `world` (the data of the run), `now`, `last`, `step`, `qty`, `basis`, `quoted`, `seen`, `pending`, `applied`, `remaining` (per key of a notice); history `over`, `kept`, `paid`, `settled` |
| `BacktestProofs` | theorems about `BacktestSpec` | |
| `SumTheorems` | what a sum over a finite set computes, used by three of the proof modules | |
| `MCLiveLoop`, `MCOrderReplay`, `MCLadderRestart`, `MCLiveCycle`, `MCIngest`, `MCTrialLedger`, `MCBacktest` | instances for TLC | |

Definitions named `x_something` directly before `x` are variants of `x` with a
plausible bug; no specification uses them, they exist to see each property fail.

### 2.1 Correspondence with the code

* **Steps.** One action is one durable transaction, one broker call, or one
  read of shared state the rest of the step depends on. Memory is written with
  the step that writes it in the code; between two steps the process may die.
* **Store.** `start_cycle` inserts or finds a `running` row; `finish_cycle` is
  an unconditional update; `mark_submitted` and `mark_rejected` overwrite the
  status as the code does; `mark_filled` adds the quantity and derives the
  status. Tables the loop never reads back are left out.
* **Quantities** are integers in lots: `fills` carries signs, the order row the
  absolute value, like the tables. A market order is filled by `walk_book` not at
  all, partly or fully: `Fillable` is any non-zero part of the order.
* **Batches.** `Decide` chooses a target per instrument (or a hold, which stands
  for bands and minimum sizes), splits a flip into `close` and `open`, and keeps a
  subset the pre-trade check can accept. Orders of one instrument are placed in
  their order; between instruments any order is allowed.
* **Equity.** Money is not modelled. The three tiers a comparison can read are
  chosen nondeterministically, except where the code leaves no choice: an empty
  curve reads zero against the account (halt), an account that never traded
  cannot drift.
* **Exceptions.** `CycleRaises` is any `Exception` inside the try block of
  `run_cycle`, before the effect of the step it hits; `EscapesRunCycle` one
  outside of it. `Crash` is a process that ends, also a boot step that raises.
* **Time.** `now` counts instants, `BarMs` of them to a bar. It may move before
  every read the code makes of the clock: at boot, between the sync rows and the
  bar of the cycle, at the deadline, and during a cycle (before its end, since
  nothing in a cycle reads the clock again).
* **Ladder.** Equities are integers and the thresholds fractions of `Scale`,
  compared by cross-multiplication. `late` counts the rows of a boot's sync that
  are keyed after the open of the current bar, so that the row of the cycle is
  inserted before them, as `ORDER BY cycle_ts` returns it. `lived` is a history
  variable: the ladder one long-lived process would hold.
* **Sleeve cycle.** One action is one call to the broker, one committed
  transaction, or one read of the kill switch; the venue and the operator act
  between any two. Shares are counted in the broker's smallest unit: `Tick` of
  them is the fourth decimal, `Share` a share, so that `round`, `int` and
  `_trunc` are integer arithmetic with their ties. A submit lands or not,
  whatever its answer: nothing in the cycle depends on the answer. A
  reconciliation reads a prefix of the closed orders after the newest recorded
  submission, because `closed_orders` stops at an HTTP error and returns what it
  has, and because the rows inserted before an exception are committed. It reads
  none older than its lookback of 45 days: `TimePasses` lets the first orders
  leave it while the sleeve is parked. A failure is counted in its table
  (`ReconcileFails`) or cannot be (`CountingFails`: the kill switch is engaged at
  once and the table keeps what it had). A cancel takes effect or, for at most
  `MaxLingering` orders, does not. `raised`, `uncounted` and `excused` count the
  failures in a row, those the table missed, and those of them after which the
  operator armed the system again; `lingered` has the orders that outlived a
  cancel. No code sees them.
* **Lake.** A row is its key. The writer's read-merge and its `os.replace` are
  two steps per file, so that a second writer between them would lose rows; what
  prevents it is the lock, which is part of the model. A key that a run leaves
  behind - below its start, in a month the archive does not have, of a failed
  session - goes into `passed`, which is history: no code sees it.
* **Trials.** A content hash is a version number, a packet sealed again a higher
  one. `Valid` is the validator's reading of reservations, ledger, packets,
  closures, waivers and amendments on disk at that moment; author and run are
  processes that may die between two files they write. Who calls the validator,
  and when, is as the scripts do it: before a reservation is written, before the
  evaluation, and again inside `record`. The validation and what it allows are two
  steps, `Authorizes` and `Computes`, `Checks` and `Records`, and everybody else may
  act between them. `resealed` has the identities sealed since the validation.
* **Backtest.** Quantities are counted in grains, `Lot` of them to a lot: orders are
  made in lots, and a split, forward or reverse, may leave a position or a queued
  order between two. Money is left out: a decision is any change of lots
  within bounds, a clipped fill is any lots of the order, a refusal (missing quote,
  price guard, mixed split and dividend) may stop the run. Recall notices with the
  same instrument and dates have one key and one remainder (`KeyOf`), as in
  `recall_remaining`. A position, a quoted price
  and a queued order carry the set of splits they have been converted by
  (`basis`), which the code does not store; it is what `CommonBasis` compares.

## 3. The runs

| run | question | bounds | states |
|---|---|---|---|
| `paper_once` | Does `--once` keep the safety properties and the refinement? | 1 instrument, targets -1, 0, 2, two bars of two instants, 1 crash, 1 error | 607 078 |
| `paper_forever` | Does `--forever`, whose memory outlives failed cycles? | 1 instrument, targets 0, 2, four bars, 1 crash, 1 error | 389 888 |
| `paper_live` | Is every cycle stamped, every intent resolved, every recovery completed? | two bars, 1 crash, 1 error | 34 376 |
| `order_replay` | Is `place()` idempotent by itself, under retries? | a flip of two orders of 2 lots, 3 calls, 2 attempts, 3 exceptions | 9 794 |
| `ladder_restart` | Does the brake survive restarts? | 5 equities, thresholds 10% and 15%, cooldown 2, 4 rows, 4 marks, 1 sync row | 2 656 173 |
| `live_cycle` | Do repeat runs converge, is every outcome recorded, does a failing record stop the trading? | 1 name, half shares, 4 raw targets on both sides, fills of 2 and 3, 3 cycles, halt after 2, 1 order may outlive its cancel | 2 284 324 |
| `ingest` | Do the races, failures and crashes of ingestion keep the lake's contract, and does it catch up? | 2 processes; a live series, an archived one, the daily files; 2 keys each, clock to 4, 1 manual run, 2 faults | 206 167 |
| `trial_ledger` | Does the governance hold whatever the scripts and the owner do in which order? | 2 identities alone, 1 batch of 2, budget 3 of which 1 is historical, 2 amendments, 1 re-seal | 612 944 |
| `backtest` | Do positions, orders, dividends, funding and recalls keep together through the peculiarities of the data? | 1 traded instrument and a benchmark, 4 bars, 306 histories, 2 grains to a lot, positions to 2 lots, changes to 3 | 250 472 |
| `doc_kill`, `doc_stacked_book`, `doc_lost_session` | Is this statement true? (section 5) | as small as the counterexample | found violated |

**Why the bounds are enough.** Two lots on one side make partial fills, and -1
against 2 makes flips, both legs of which share a cycle. Two bars let a crash in
one cycle be recovered in the same bar, in the next, or after a bar was missed;
the `--once` run has two instants per bar so that a boot and a cycle can stand at
different times of one bar, and sync rows fall between bar keys. Four bars in
`--forever` give a failed cycle, a later one that saves its leftovers, a third
that dies in its batch, and a recovery. One crash and one error already combine in every
order; the proofs cover any number of both, of instruments and of bars, so the
runs are there to find out what to prove, to see each property fail under a bug,
and for the liveness. In the ladder's instance 36 of 40 is the half trigger, 37
lies between release and trigger, 38 releases and 34 halts; with a cooldown of
two a halt is entered, served and left within four marks. With one sync row its
place behind the cycle's row is exercised.

In `live_cycle` one name is enough for a sweep of two stale orders, a flip of two
legs and a watermark that passes an order of the same cycle; three cycles are
what `HaltAfter = 2` needs to be reached and re-armed. One order that outlives its
cancel already fills beside the book that replaces it and falls behind a watermark;
the theorems have any number of them. The raw targets -2, 0, 3
and 6 at two units to the share truncate, round, flip and run away. In `ingest`
the bars of the live series are two ticks wide, so that a run sees one forming; a
file holds two keys, a batch four, so that a batch spans files; two
faults let a failure and a crash, or two crashes, fall into one series. In
`trial_ledger` the third forward identity is over the budget, so both an
identity reserved alone and the batch are seen on either side of it, and a packet
is sealed again between a validation and its use. In
`backtest` four bars place a split, a gap and an order around each other in
every way: `CorporateWorlds` combines six histories with splits of 2, of 2 and 3,
and of 1 for 2, ex dates and delistings, `FundingWorlds` puts events into gaps of
the instrument and of the grid, `LendingWorlds` gives one notice, two of different
dates or two under one key, for parts of a lot or several, with splits and closed
bars. Two grains to a lot let the reverse split halve a lot.

Deadlock is checked in `paper_once` and `paper_forever`: the operator's
sentinel keeps a step enabled there, so what excludes a stuck process is
`paper_live`, not the deadlock check. It is checked in `ingest` and
`trial_ledger` too. It is switched off in `paper_live`, where
the clock stops at its bound, in `order_replay`, where the calls are used up,
in `ladder_restart`, where rows and marks are, in `live_cycle` for the cycles, and
in `backtest`, where a run is done or refused.

### 3.1 Properties

* `TypeOK`, `CycleTypeOK`, `IngestTypeOK`, `TrialTypeOK`, `BacktestTypeOK`: one
  type invariant per specification, with what ties its parts together. Those of
  `OrderReplay` and `LadderRestart` are proved and in no run.
* `PersistBeforeSubmit`: what the broker, or a saved blob, knows was intended in
  the store first.
* `ExecutedOnce`: one execution per order on both sides, within its quantity.
* `LogsAgree`: where both sides record an execution, it is the same.
* `NeverRejectAFill`: no order with an execution anywhere is `REJECTED`.
* `OkCycleIsDurable`: an `ok` cycle has blob, equity row and settled orders.
* `TerminalCycleSticks`, `NeverBackfilled`: no restamping, no late trading.
* `RecoveredBookIsStoreBook`: a boot that ends in trading has the store's fills,
  and positions that are their net.
* `KeepsItsPromises`: the loop implements `OrderOutcomes` under
  `RecordedOutcome`: an order is intended, then executed once or voided, for good.
* `CycleIsStamped`, `IntentIsResolved`, `RecoveryCompletes`: liveness.
* `AtMostOneFill`, `ReturnedMeansRecorded`, `RejectIsDefinitive`,
  `TerminalOrderSticks`: the contract of `place()` and its retry.
* `TierFitsDrawdown`, `NoFlapping`, `FullGrossIsEarned`, `ExactOnMarks`: the
  ladder, across restarts.
* `NeverStacks`: whatever the open orders still do, a position stays between the
  snapshot, flat and the target of the last sized book, but for what orders that
  outlived a cancel do. `NoOutcomeIsLost`: at or below the watermark every order is
  closed and recorded with what it finally filled, unless it outlived a cancel or
  was older than the lookback before it was read. `HaltsOnFailures`: failures count
  across processes, and one that cannot be counted stops the trading until the
  operator arms it again. `NeverThroughZero`: no order about to be submitted crosses
  zero.
* `OnlyFinalRows`; `KeepsTheLake`: ingestion implements `Lake`; `CatchesUp`: a
  final row of a series that has a watermark ends up in the lake or passed over.
* `OrdinalIsPosition`, `BatchesAreAtomic`: the n-th forward identity spends the n-th
  ordinal, and a batch stands together. `DecidedBeforeNext`: no returns of a new
  identity are computed or counted behind one that is undecided, unless that one was
  sealed anew after the run was validated - all the gap between check and use can do.
* `CommonBasis`, `NeverStranded`, `DividendsFollowHoldings`,
  `FundingFollowsHoldings`: what is held, priced, paid and settled belongs together.
  `ObligationsShrinkByPurchases`: the recorded remainders of an instrument shrink by
  no more than is bought, so notices of different keys never share a lot.

### 3.2 Fairness

`FairSpec` asks weak fairness of `BootStep` and `CycleStep` only: a supervisor
restarts the process (launchd's KeepAlive, or the next hourly start of
`trade.sh`), and a process that can take its next step takes it, since the code
is sequential, its loops are bounded and its waits time out. Nothing is asked of
the clock, the operator, crashes or errors, so the liveness does not rest on
time passing or on a sentinel being removed. It is stated for `--once`; under
`--forever` a cycle whose last `finish_cycle` raised stays `running` until the
process is restarted, which the code does not promise.

`FairIngest` asks weak fairness, for each process, of its next step and of
starting another update. A job is sequential code over bounded loops with timeouts
on its requests; the hourly timer of `scripts/vps/ingest.sh` and every cycle
of the live loop start updates for good. Nothing is asked of the
clock, of operators or of faults, and a lock that is refused ends the job, so
`CatchesUp` holds although a process may be refused again and again.

## 4. The proofs

All theorems are checked by TLAPS from the assumptions on the constants alone
(`TypesAssumption`, `LoopAssumption`, `NoOrderAssumption`, `LadderAssumption`,
`RestartAssumption`, `ReplayAssumption`, `DeltaAssumption`, `CycleAssumption`,
`IngestAssumption`, `LifeAssumption`, `TrialAssumption`, `BatchAssumption`,
`BacktestAssumption`, `FineGrain`), which TLC evaluates in the runs. `FineGrain`
chooses the unit of the model: what a lot becomes under the splits of the data,
forward or reverse, is a whole number of grains, as it is in the fractions of a
share the code computes with (up to its floating point). For any finite data some
`Lot` satisfies it; only `DividendsArePaidOnce` uses it. Nothing is assumed of
cancels: what an order does that outlives one is part of the statements.

**Sums** (`SumTheorems`). Three models add things up: the fills of an instrument,
what the open orders of a name can still do, the lots a lender recalls. They do so
with `SumFunctionOnSet` of the community modules, which chooses the element to take
out next. The module proves what the sum is for every finite set, whatever is
chosen: any element can be split off (`SumSplits`), equal summands give equal sums,
smaller ones no larger sums, summands that are zero do not count, and a change of
one summand is the change of the sum. The library's induction theorems take an
operator as a parameter, which no installed prover instantiates; here the induction
is over a *set* of naturals, or of subsets of a finite set, that is closed under
the step (`NaturalInduction`, `FiniteInduction`), proved from the
well-foundedness of the naturals.

**The loop** (`LiveLoopProofs`). `PersistBeforeSubmit` and its companions are not
inductive: after a crash they hold because of what the saved blob, the store and
the clock had in common before it. `LoopInv` makes that explicit in eight parts:

* `StoreInv`: at most one fill per order, inside the order, and a row that shows it;
* `BookInv`, for the live book and for the saved one: an acknowledged order has an
  intent, an accepted one exactly one fill, and a fill both sides know is the same;
* `MemoryInv`: memory is never behind the blob; during boot it holds nothing that
  is in neither the blob nor the store; after the replay it holds all of the store;
* `WatermarkInv`: a recorded fill of the blob's bar or an earlier one is in the
  blob, which is why the replay may start after it;
* `ClockInv`: no bar is opened early, the bar of a cycle is the latest one, and
  its row is `running` until it is stamped;
* `PlaceInv`: the orders of a batch are new, and the order in hand is exactly
  where `om_step` says;
* `DurableInv`: what is durable at each step on the way to `ok`.

Every step's effect on one order is first classified (`OrderSteps`: kept,
intended, rejected, submitted, filled); the parts are then preserved one lemma
each, with frame lemmas for the steps that do not touch them. `Invariant` states
`Spec => []IInv` with `IInv == TypeOK /\ LoopInv`; the safety theorems follow
from it, and `Refinement` maps every step to a step of `OrderOutcomes` or to a
stutter.

`NetInv` adds the positions: in memory and in the blob they are the net of the
fills of the same book, since a fill moves both in one step, a replay books what
it replays, and save and restore copy the pair. With `RebuiltFromTheStore`, which
has the fills, it gives all of `RecoveredBookIsStoreBook` (`RecoveredBook`).

**The ladder** (`LadderRestartProofs`). `RestartInv` relates the ladder of a
process to what it was fed (`Earned`: a live ladder's mark covers everything
since the last served halt) and the history to the marks (`LivedInv`,
`MarkRises`, `ReplayInv`). From it follow the type, the tiers, the hysteresis,
the exactness of the restore on marks, and `FullGrossIsEarned`.

**The order manager** (`OrderReplayProofs`). `ReplayInv` says where the execution
of an order may be while `place()` is at each of its steps: the store's fills are
the broker's or none (`NothingInvented`), and unless a call was aborted only the
order in hand may have one that is not yet recorded (`OnRecord`). It gives all
four properties of the run, for every set of requests and any number of calls,
attempts and exceptions.

**The sleeve's cycle** (`LiveCycleProofs`). `LegsNeverCross` is about `DeltaLegs`
alone, for every holding, target and resolution: arithmetic of truncation,
rounding and the withheld open leg. What counts as crossing is beyond `Tolerance`:
the residual `_FLATTEN_EPS` after which an open leg is sent, or the half tick by
which `round(delta, 4)` may sell more than a finer holding has (section 5.1);
without it the statement is false. `HaltInv` keeps the persisted count equal to
the failures in a row less those that could not be counted, and the system halted
after one of these until it is armed again. `OutcomesAreRecorded` rests on `Swept`:
from the end of the sweep to the first submit nothing is open but what outlived its
cancel, which is what makes a watermark by submission time sound for all the others.
`BookNeverStacks` rests on it too, and on `StackInv`, which
is `NeverStacks` with what is still queued counted as if it were open: the sum of
the open quantities of a side and the legs of the queue stays inside the hull of
the sized book, because a fill moves the position by what it takes from the sum, a
submit moves a leg from the queue into it, and a new book is sized when it is no
more than the orders that outlived their cancel. The hull a book is given includes
these; how far that can take a position is what `doc_stacked_book` shows.

**Ingestion** (`IngestProofs`). `Lake`'s promise for a watermark is not inductive
without what the process at work knows: every final row below its cursor is
stored, passed over or in what it still has to write (`Walked`), what it has to
write is final and below the cursor (`Pending`), and the image it will put in
place is the file that stands with its rows added - which holds because nobody
else holds the lock. `IngestInv` is preserved by each action; the refinement maps
`Replace`, the failures that pass over, `SetMark`, `EndWalk` and `Reset` to steps
of `Lake` and the rest to stutters.

**The trial ledger** (`TrialLedgerProofs`). `TrialInv` adds to the two state
properties that the logged members of a batch are a prefix of it, that a batch
logged in part ends the ledger (`OpenLast`), and how far a run has logged its own
unit (`RunInOrder`). That a second identity cannot enter behind an open batch then
follows from the validator's reading of open batches. `RunChecked` carries what was
validated to its use, whatever the others do in between: the ordinal is still the
next one and within the ceiling, since the run is the one writer of the ledger and
ceilings only rise; no other batch has opened on the ledger; and everybody before
the identity is still decided, but for those sealed anew, for a waiver is not taken
back and a closure is replaced only with its packet.

**The backtester** (`BacktestProofs`). `Bases` says that what is held or queued is
counted in the basis the corporate-action pointer has reached, and that at a bar
of the instrument this is the bar's own; `Alive` that a position always has a bar
left; `Booked` that funding is settled exactly up to the close passed. `Books`
adds which keys an order may cover and the types of the histories.
`RecallsAreCovered` then shares a purchase out among the keys of an instrument
in their order (`FillShared`, `PrefixGrows`): what they lose together is no more
than was bought. `DividendsArePaidOnce` needs `HoldingsInv`: a position whose ex
date is still ahead of the pointer has not changed since the last close before it
(`Held`), and every date behind the pointer is paid on it (`PaidOnce`); that the
shares are then those of the date is arithmetic (`EntitledExact`) once no conversion
rounds. That is `Exact`: what is held or queued is made of lots of the bars it was
traded on, each of which is a whole number of grains at every later bar (`Fits`), and
conversions, whole fills and purchases of lots keep it so (`ConvertsExactly`,
`FitsSum`, `FitsLots`). They hold for every market history the providers can hold.

**Only model-checked.** Liveness (`CycleIsStamped`, `IntentIsResolved`,
`RecoveryCompletes`, `CatchesUp`), which is beyond this prover, and the
counterexamples of section 5. Every other property of a run is a theorem.

## 5. Where the code does not do what it says

Each is a run that TLC finds violated; `PROJECT.json` quotes the lines.

* `doc_kill`: the sentinel is not looked at again before each submit.
* `doc_stacked_book`: the sweep ignores what `broker.cancel` answers. An order
  whose lookup or DELETE failed, or whose cancel is pending, stays open, and the
  next cycle submits the full delta beside it.
* `doc_lost_session`: the equity feed has one watermark, and a session that failed
  is isolated; the next session's success moves the watermark past it for good.

### 5.1 Noticed while modelling, without a run

Paper loop:

* `execution/paper.py:538-541` says an execution is never unknown to the store;
  between the broker's fill and `mark_filled` it is, and a crash there forgets it
  consistently on both sides (`ExecutedOnce` still holds).
* `live/loop.py:987-989`: an adoption that recovers a real lag can be unbacked by
  the store's fills after a write that raised; the gate then halts the boot.
* `live/loop.py:930-931`: a sync row, keyed at `now`, hides the later row of its
  own bar's cycle, and a clean restart writes again.
* `execution/order_manager.py:433-434`: a partly filled order that is placed again
  turns back to `SUBMITTED`.
* `live/loop.py:1046-1050`: the restored ladder is fed equities after trading, the
  lived one before, so they can stand in different tiers (`ExactOnMarks` is the
  part that holds).
* `execution/reconcile.py:9-10` speaks of a reconcile before every cycle, it runs
  on boot; `execution/order_manager.py:416` calls audits index-aligned with fills,
  `apply_recorded_fill` appends a fill without an audit; `live/loop.py:1141` says
  "no orders of any status" where open intents are tested; `core/types.py:81`
  calls the transitions of an order monotone, the store's update is unconditional.

Sleeve cycle:

* `closed_orders` (`alpaca_broker.py:239`) stops at an answer other than 200 and
  returns what it has; `_reconcile_fills` counts that as a success and resets the
  failure count, so an outage answered with 5xx never reaches the halt its docstring
  promises for "repeatedly trading while the local record cannot establish prior
  outcomes".
* The docstring of `_reconcile_fills` says (474) "Terminal-but-unfilled orders are
  recorded too (that is the whole point)". The listing starts no earlier than 45
  days ago (463, 485-486): after a longer park, orders nobody has read yet are never
  listed again, and the next record passes them. Nor is an order recorded that
  outlived its cancel and was still open when a later one was recorded.
* The same docstring counts "consecutive failures" to the halt. One whose count
  cannot be stored (542-543) engages the kill switch at once, but is missing from
  the table: after the operator has armed the system again the count goes on below
  the real number of failures in a row. A success whose own commit fails (522)
  restarts the count at 1.
* `round(delta, 4)` on the close of a holding with more decimals can order more
  than is held (10.00006 shares are closed by selling 10.0001); the docstring of `_delta_orders` (243) says the open leg of a flip
  is "the only order this function can build that crosses zero".
* `mf_tick.sh` removes a lock older than 30 minutes whoever holds it, while its
  parts may run longer together (900 + 900 + 1200 seconds); the model has one
  process at a time.

Ingestion:

* An operator's `--start` above the watermark leaves a hole the watermark then
  covers; the model has it as keys passed over.
* `update` starts at the lowest watermark plus one: a series whose first ingestion
  failed has no watermark and is followed from there only, without its history.
* An empty answer followed by a non-empty one moves the watermark past the empty
  span.
* `data/ingest/fundamentals.py:181` says the lock serializes all lake writers;
  `apply_flags` (`data/quality/checks.py:548`) and the resampler write without it.

Research governance:

* `run_earnings_narrative_change_v1.py:230-231` says the validator would refuse the
  reservation of a logged identity a second time; it accepts it.
* The author's docstring (10) says nothing that fails is left on disk; the
  registry and the reservations of earlier members are.
* `record` validates again after the returns have been computed: an identity
  evaluated before a change on disk may be refused there and is not counted.
* The runner validates once (`authorize_oos`, 202) and computes the returns long
  after (391-405); `record` appends after its own validation in the same way. A packet
  sealed again in between, now undecided, is not seen: returns are computed and
  counted behind it.
* Of a batch, the validator asks for the predecessors of a member only, not that
  every member is reserved before the first return.

Backtest:

* The carry of an interval is charged, after the fills at its start, on the
  position held before them: the pass of a close accrues before it fills the orders
  that opened at the previous one.
* `docs/research/MARKET_STATUS_REPLAY.md` says `CLOSE_ONLY` blocks risk increases;
  a netting order flagged reduce-only that crosses zero opens the other side.
* What remains of a recall is not converted by a split, and a notice known while
  the book is flat lapses.
* `recall_remaining` is kept per instrument, event, availability and deadline
  (`backtest/engine.py:1242-1248`). Two notices that agree in these share one
  remainder, the first one's quantity: the second quantity is never asked for, one
  purchase clears both, and the sum of the remainders (1264) counts it twice, so the
  order may buy more than is recorded as recalled.
* The comment at `backtest/engine.py:974-976` says that a split whose price did not
  move is "logged and skipped, never applied"; for an exposed instrument the code
  raises (1747-1754).

## 6. Not modelled

*Of the modelled parts.* Cash, fees, average prices, paper funding and marks; the
contents of market data, features and targets; alerts, reports and counters of
missed cycles; the strategy's history and overlay; the universe and its refresh
(the instruments are a constant); the ladder and target tables; a clock that
jumps backwards; the second read of the account that `reconcile()` makes at boot
(`execution/reconcile.py:592`; the model compares what the boot read first); two loops or two cycles at once, which the locks of the tick
scripts exclude (but see 5.1); loss or corruption of a SQLite file or of a Parquet
file; the run log of ingestion, the readers of the lake and revisions of a row;
schemas and hashes of governance files nobody edits; prices, costs, borrow
charges and the participation cap's arithmetic in the backtest.

*Whole parts.* Portfolio construction, features, signals, labels, models, regimes,
validation statistics, analytics and the research scripts are numerical pipelines
over real-valued data: their result enters as an arbitrary target, and nothing in
them is a state a model checker could enumerate. They are most of the lines of the
repository. The ccxt adapter, options, futures and financing are valuation rules
no loop reaches. Exports, health checks and reports only observe. Backup,
the Foundry catalogue, the book-level multiplier file and the universe store keep
state and would each make a small module.

## 7. Plan

Done, in this order: the recoverable loop with `OrderOutcomes` and its proofs; the
contract of `place()` with its proofs; the ladder across restarts with its proofs;
the sleeve's cycle; ingestion as an implementation of `Lake`; the trial ledger; the
backtester's loop; the proofs of each, those about sums last.

What a continuation would take up:

1. `UniverseRefresh` and `BookLadder` beside the live loop: the monthly refresh
   that heals itself, the multiplier file that fails open, a held instrument that
   left the universe.
2. `PaperAccounting`: positions, average price, cash and funding in fixed point
   against a reference ledger, and what a failed cycle loses of them.
3. `Scheduler`: the counters of missed and degraded bars against the cycles table,
   and a stepped clock.
4. Two processes behind a lock that is stolen by age (`mf_tick.sh`, `trade.sh`).
5. `Backup`: manifest, prune and restore drill.
