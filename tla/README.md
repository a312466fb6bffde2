# TLA+ specification of the Binance market data pipeline

This directory specifies the pipeline of this repository in TLA+: what its
processes do, step by step, what must hold of them, which of it TLC checks on
small instances and which of it TLAPS proves for every instance.

All paths below are relative to the repository's root.

## 1. The system

```
                 ┌── REST klines ──> ingest DAG ──> Bronze ──> raw ──> dbt star schema ──┐
Binance ─────────┤                                                                       ├──> reconciliation
                 └── trade stream ──> receiver ──> Kafka ──> aggregator ──> Bronze ──────┘
                                          └──── heartbeats ────┴──> health check
```

| Component | Code | State it keeps | Operations | Talks to |
|---|---|---|---|---|
| Receiver | `src/bmp/ws_consumer.py` | counters, backoff, the producer's queue; the heartbeat file | connect, receive, produce, delivery callback, reconnect, stop | Binance socket, Kafka, heartbeat file |
| Aggregator | `src/bmp/aggregator.py` | `windows`, `offsets`, `watermark`, `late`, `written`, `position`; the group's committed offsets; the bar and late objects | poll and ingest, flush, commit, stop, die, restart | Kafka, object storage, heartbeat file |
| Health check | `src/bmp/health.py`, `deploy/bmp-health.*` | the state file: the counters of the last check | read both heartbeats, judge, write the state, alert | heartbeat files, webhook |
| HTTP client | `src/bmp/binance.py` | the time of the last call | paced, retried GET | Binance REST |
| Klines paging | `src/bmp/klines.py` | the cursor of a day | fetch a day page by page, deduplicate, summarise | HTTP client |
| Object store | `src/bmp/objstore.py` | the objects | put (overwrites), exists, list | R2 or the local disk |
| Symbol metadata | `src/bmp/exchange_info.py` | none | fetch and flatten today's metadata, mark missing symbols DELISTED | HTTP client |
| Ingest DAG | `dags/binance_klines_ingest.py`, `scripts/backfill.py` | Bronze objects per (date, symbol) | check the API, fetch each symbol, validate the day, register | klines paging, object store |
| Warehouse load | `src/bmp/warehouse.py`, `dags/binance_warehouse.py`, `scripts/load_warehouse.py` | `raw.klines_1m`, `raw.exchange_info` | list pending days, replace one day in a transaction | object store, Postgres |
| dbt project | `dbt/` | `snap_symbol`, `dim_symbol`, `dim_date`, `dim_time`, `fact_ohlcv_1m`, `fct_*` | snapshot, rebuild dimensions, extend the fact table, test | Postgres |
| Configuration and deployment | `src/bmp/config.py`, `src/bmp/kafka_conf.py`, `deploy/`, `docker/` | none | | everything |

### What is hard about it

* **The aggregator acknowledges one offset per partition while it holds trades
  of several minutes.** Crashes, failed puts, failed commits and rebalances can
  come between any two of its steps, and what a restart reads again must neither
  be lost nor spoil what was stored.
* **Event time drives the windows**, one watermark serves all partitions and
  symbols, and a process that starts again knows neither the watermark nor what
  was written before it.
* **The warehouse finds its work by looking**: days are loaded because their
  objects are there, rows reach the fact table because their `loaded_at` is newer,
  versions of a symbol are dated by when they were noticed. Two loaders, or a load
  that overlaps a build, are the orders nobody tests.
* **The producer's queue is a shared limit.** `produce()` fails at once when it is
  full, its room comes back only in `poll()`, and the process that holds it answers
  every failure by reconnecting.
* **A day is fetched page by page while Binance throttles, fails, fills gaps and
  delists**, by a task that Airflow retries or an operator clears, or by a script
  that may be at the same cell.
* **The health check compares a counter that a restart resets** with the last one
  it saw, out of a file that is empty while it is being rewritten.

### What makes each component correct

* Receiver: trades of a symbol reach Kafka once and in the order received; what a
  reconnect loses is counted; it always comes back to a socket that delivers; a
  fresh heartbeat means trades are being accepted.
* Aggregator: no trade is lost once committed past; a stored bar is the whole
  candle of its minute and is not replaced by less; a late trade is recorded.
* Health: a check that passes is true, a stall is reported no later than the second
  check, and "stalled" is true of the process it is said of.
* HTTP client and klines paging: a day is returned whole and without duplicates
  or the call fails.
* Ingest DAG and backfill: a green day stays whole; what it lacks was delisted; the
  script's exit status is honest.
* Warehouse load: a date is replaced in one step and never left empty; only
  complete days enter.
* dbt: each raw row reaches the fact table once, under the version of its symbol
  that was valid at its minute; a symbol has one current version.

## 2. The modules

| Module | What it is |
|---|---|
| `AtLeastOnce` | abstract specification: an acknowledged prefix of a log holds only messages already stored |
| `Candles` | abstract specification: a minute takes trades until its candle is stored, of all of them and for good |
| `Aggregator` | the aggregator, the topic it reads and the objects it writes |
| `AggregatorProofs` | types, at-least-once delivery, and the invariants behind it |
| `BarProofs` | the bars: counted once, whole, final, what makes a trade late, `Candles` implemented; extends `AggregatorProofs` |
| `MCAggregator` | the instances of `Aggregator` TLC checks |
| `TradeLog` | abstract specification: a topic with each trade at most once, a symbol's in trade order |
| `Receiver` | the socket, the run loop, the producer and its queue, the broker, the heartbeat |
| `ReceiverProofs` | theorems about `Receiver` |
| `Health` | composition: `Receiver`, the aggregator's flush cycle and heartbeat, and the check that reads both |
| `HealthProofs` | theorems about `Health`; extends `ReceiverProofs` |
| `MCHealth` | the instances of `Health` TLC checks |
| `Bronze` | abstract specification: objects put whole, of their own date, never empty, never removed |
| `Ingest` | Binance's klines, the HTTP client, paging, the ingest DAG, the backfill script, and which dates the warehouse picks up |
| `IngestProofs` | theorems about `Ingest` |
| `MCIngest` | the instance of `Ingest` TLC checks |
| `DayTable` | abstract specification: a table whose dates are replaced whole, each in one step |
| `Warehouse` | Bronze, the two loaders, `raw`, the symbol snapshot, `dim_symbol`, the fact table, and the DAG that runs them |
| `WarehouseProofs` | theorems about types and loading |
| `StarProofs` | theorems about the versions of a symbol and the fact table; extends `WarehouseProofs` |
| `MCWarehouse` | the instances of `Warehouse` TLC checks |
| `NatSets` | lemmas: what `Min` and `Max` return of sets of naturals |

How they meet. `Receiver` implements `TradeLog`, and `TradeLog` is what
`Aggregator` assumes of its topic: `Publish` there only appends to the partition of
the symbol, and never an older trade of it. `Health` contains the receiver whole,
and of the aggregator what its heartbeat depends on: its loop, its count, and that
a process may die inside a flush. Seen from its readers `Aggregator` implements
`AtLeastOnce` and, while it keeps up, `Candles`. `Ingest` ends where `Warehouse`
begins: it knows of the warehouse only the dates it has, and of the ingest the
warehouse relies on `Bronze` alone, which `Ingest` implements: `PutObject` of
`Warehouse` is `Put` of `Bronze` with the minutes of one of `Shapes`: an object replaced
whole by minutes of its own date that have begun. The two branches meet only in Bronze, under different
prefixes, and nothing in the repository moves the bars of the stream into the
warehouse (`load_stream_day()` has no caller), so no module composes them.

### `Aggregator`

One trade is one message of the log and is identified by `<<partition, offset>>`.
Prices and volumes are abstracted to what the properties tell apart: a bar is the
set of trades it was built from, how many additions were made to it, and its first
and last trade (its open and its close). Time is counted in small units:
`MinuteLen` of them make a minute and `Grace` of them the grace period.

| Specification | Code |
|---|---|
| `log`, `Publish`, `PublishMalformed` | the topic `trades.raw`, written by the receiver in the order of arrival, keyed by symbol |
| `fetch`, `Receive` | the client's position and `consumer.poll()` |
| `IngestTrade`, `IngestLate`, `IngestMalformed` | `ingest()`: one message to its end, with `position[...] = offset + 1` |
| `StartFlush` | the timer test of the loop and `touch_heartbeat()` |
| `WriteWindow`, `EndWindows`, `WriteLate`, `EndFlush` | `flush()`, one put at a time, because a crash or a failed put may come between two |
| `CommitSafely`, `safe_offsets` | `commit_safely()` |
| `Stop`, `PutFails`, `CommitFails`, `EnterFinally` | a signal, or an exception out of the loop, and the `finally` block, which flushes and commits once more |
| `Crash`, `Die`, `Restart` | the process killed at any step, and systemd's `Restart=always` |
| `Rejoin` | the group drops the consumer and takes it back: delivery resumes at the committed offsets, and with no rebalance callback the memory stays |

A put whose answer is lost is a `WriteWindow` followed by a `Crash`: the object is
there and the process does not know. `persisted` is a history variable: everything
ever put in an object. A `late` trade is kept as its identity, so a trade filed
twice by a replay is one late trade. Stats other than `windows_written` only appear
in log lines and are left out.

### `Receiver` and `Health`

A trade is its symbol and its place among all trades made. The socket holds what
arrived and was not read; a trade made while no socket is alive is never received.

| Specification | Code |
|---|---|
| `Trade`, `SocketDies` | Binance's stream; a socket on which pings are answered and nothing arrives |
| `Connect`, `StreamError`, `Wake` | the outer loop of `run()`: connect, any exception, the wait, the doubled `backoff` |
| `Silence` | the timeout of `recv()` after 30 seconds: a new socket at once, no backoff |
| `Produce`, `QueueFull` | `produce()`: queued, or `BufferError`, which is an exception like another |
| `Poll`, `Served` | `poll(0)` and the delivery callbacks |
| `OpenHeartbeat`, `WriteHeartbeat` | the heartbeat file every `HeartbeatEvery` trades: `open(..., "w")` empties it, an `OSError` is swallowed |
| `Broker`, `Expire` | librdkafka's thread with idempotence on: appended once, the answer may be lost and the message sent again, or it expires |
| `StopRequested`, `LeaveLoop`, `FlushAndExit` | the stop event, `flush(30)` and what it leaves behind |
| `Crash`, `Reboot`, `Restart` | the process or the machine dies (`/tmp` is emptied), systemd restarts |
| `OpenAgg`, `WriteAgg`, `Flush`, `AggDies`, `AggRestart` | `touch_heartbeat()` before each flush, the count added only when the flush is over, `windows_written` from zero in a new process |
| `check_heartbeat`, `Check` | `health.py`: missing or unreadable, too old, no progress; then the state file, which may fail to be written or stay empty |
| `Tick` | time, while both loops wait |

A message counts against the queue until its delivery report is served; that is
librdkafka's documented reading of `queue.buffering.max.messages` and the reason
`Outstanding` adds the reports. `age`, `idle` and `elapsed` are counted to one unit
past the limit they are compared with. `total`, `idle`, `last` and `before` are
history. A file read while it is rewritten is `NoBeat`, for the check and the writer
interleave at `OpenHeartbeat`/`WriteHeartbeat` and `OpenAgg`/`WriteAgg`.

### `Ingest`

A candle is its open time; an object is the set of its candles, since a list
without duplicates in ascending order is its set. `Limit` candles make a page.

| Specification | Code |
|---|---|
| `offered`, `Tick`, `Repair`, `Delist` | what Binance has: a minute may be missing and come later, a symbol may be delisted |
| `DayStart`, `DayEnd`, `klines`, `NextCursor`, `IsLast` | `day_bounds_ms()`, one request, and the loop of `fetch_day()` |
| `Page`, `Unanswered`, `RetryOrRaise`, `Breaks` | `get()`: an answer, an error that is retried while attempts are left, one that raises at once |
| `Stores`, `Put`, `NoCandles` | `write_partition()`, and the day without a candle, which Airflow does not retry |
| `Ends`, `Raises`, `Fails`, `StartTask`, `Clear` | Airflow's task states: retries, a failure for good, a cleared task |
| `CheckApi`, `ApiDown`, `ValidateDay`, `UpstreamFailed` | `binance_klines_ingest`: its universe, its gate and `register` |
| `StartScript`, `NextCell`, `Skips`, `ScriptDies`, `ScriptEnds` | `scripts/backfill.py` with `--force`, its skips, its failures and its exit status |
| `Pending`, `LoadDay` | the dates that `binance_warehouse` finds complete |

`Breaks` covers three things that leave the same state: a status that is not
retried, a put that raises after it was applied or before, and the death of the
worker. `asked` is history: what Binance had of the day when the fetch began;
`contested` the cells at which both writers were in flight together.

### `Warehouse`

A candle is a row `<<symbol, minute>>`; its prices do not matter to any property.
Minutes are numbered across dates, `DayLen` to a date. `now` is the first minute
that has not begun, and also the time a snapshot stamps on a version: a snapshot that
writes versions moves it, since two snapshots never run in the same instant.
`loaded_at` is `now()` of Postgres, the start of a transaction, hence the stamp is
taken by `BeginLoad` and not by `CommitLoad`.

| Specification | Code |
|---|---|
| `bronze`, `PutObject`, `list_keys` | the objects `bronze/klines/...`: put, and put again, by the ingest DAG once the date is over and by the backfill also while it is in progress |
| `meta`, `ChangeMeta`, `observed`, `SnapshotSymbols` | the exchange's metadata and the task that stores today's in `raw.exchange_info` |
| `raw`, `loaded_dates` | `raw.klines_1m`: per row its `loaded_at` |
| `Pending`, `ListPending` | `load_pending()`: dates with an object of every symbol that the table lacks; none is a skip |
| `ListTodo(flags)` | `scripts/load_warehouse.py`: `--force`, `--allow-partial` |
| `ReadDay`, `BeginLoad`, `CommitLoad`, `LoadFails` | `load_day()`: objects read outside the transaction, then delete and insert in one |
| `hit`, `Visible`, `SeenWhileOpen`, `Replaced` | the DELETE hits the rows that are committed when it runs, others see them until the commit, and the commit removes those and no others |
| `Loses` | what Postgres does with two such transactions on one date: the second hits the primary key |
| `snap`, `TakeSnapshot`, `Changed`, `Closed`, `Opened` | `snap_symbol` with dbt's `check` strategy |
| `dim`, `BuildDim`, `Backdated` | `dim_symbol`, its first versions backdated |
| `fact`, `BuildFact`, `Newer`, `Covers` | `fact_ohlcv_1m`, incremental, delete+insert on its unique key |
| `StartRun`, `JoinRoots`, `NoneFailed` | the DAG's shape: two roots side by side, `none_failed` on the snapshot, one run at a time |
| `BuildRetried`, `RunFails` | `retries`, and a task that failed for good |

Three choices deserve a word. The objects of a date are read in one step, although
`read_day()` reads them one after the other: each object is written by itself, so
what `read_day()` returns when a put falls in between is also what one step returns
when the puts come in another order. `ListPending` and `ListTodo` take their two
listings (Bronze and the table) at once: a date that is loaded between them is
loaded twice at worst, which `--force` does on purpose. `Overlap` says whether a
build may fall inside a transaction of the script; the code does not prevent it, it
is an assumption on the operator, and `wh_late_commit` shows what happens without.

## 3. The runs

| Run | Question | Result |
|---|---|---|
| `agg_delivery` | Is a trade ever acknowledged before it is stored, does every trade of a finished minute reach storage, and what makes a trade late? Two partitions, one fault and one rejoin at any step. | Never before, and all of them in the end; a trade is late only against one read before it that closed its minute. The aggregator implements `AtLeastOnce`. |
| `agg_bars` | Are bars whole and final through a fault, with symbols that trail each other by up to the grace period, as long as the process keeps up with both partitions? | Yes: the aggregator implements `Candles`, and all that is committed is in its bar. |
| `agg_shrink` | Can a stored bar be replaced by a part of it? | It can: see findings. |
| `agg_late_lost` | Does a recorded late trade stay recorded? | It does not: see findings. |
| `agg_late_unwritten` | Is a trade late only when its window was written? | Not with two partitions: see findings. |
| `stream_health` | What does the receiver publish and lose, does it come back, and do the checks tell the truth? Any two incidents. | Each trade at most once and in order, every loss to a reconnect counted, always back, and the checks are true. |
| `stream_wedged` | Does a full queue mean an unreachable broker? | It does not: see findings. |
| `ingest_day` | Is what is stored of a day the day, does green stay whole, do dates reach the warehouse? Gaps, repairs, delistings, throttling, broken puts, clears, the script; any two. | Yes, but for a symbol that was delisted. `Bronze` is implemented. |
| `wh_load` | Two loaders on the same dates, an object fetched again or a task that fails at any step, inside a transaction too: is a date ever seen empty, mixed or incomplete, and does every raw row reach the fact table? | Dates are replaced whole (`DayTable` is implemented) and every row arrives. |
| `wh_versions` | A symbol changes twice, its date is corrected and loaded again, a task fails at any step: are facts unique and at the version of their minute, do they keep it, is each version a change, and do dates and metadata arrive? | Yes. |
| `wh_late_commit` | As `wh_load`, but for a build that falls inside a transaction of the script. | Rows are lost to the fact table: see findings. |
| `wh_vanished` | Does a corrected date leave minutes behind that it no longer has? | It does: see findings. |

### Properties

* `CommittedIsPersisted`: below a committed offset every well-formed trade is in a
  bar or in a late file that was put. This is the promise of the speed layer.
* `CommitBelowOpenWindows`: the docstring's "an offset is never committed past a
  window still open".
* `WrittenStaysGone`: pruning `written` by the clock can never reopen a minute,
  because event time alone already calls it gone.
* `BarsWhole`, `BarsAreFinal`: what is stored is the candle of
  the whole minute, each trade once, and is not replaced by something else.
* `CommittedInBars`: what the commit has passed is in the bar of its minute, so no
  candle waits for a replay. It is what `CommittedIsPersisted` becomes when nothing
  is late.
* `StoresCandles`: the refinement. No trade is published for a minute whose candle
  is stored, and a candle is stored once, of all its trades.
* `KeepsUp` is a condition and not a property: nothing unread is of a minute that event
  time has passed. One partition meets it by itself (`OnePartitionKeepsUp`); on two the
  bars are right under it, since one watermark serves both, and `agg_late_unwritten`
  shows what becomes of a partition that is left behind.
* `CommitsAdvance`: a restart replays from where the last one did or later.
* `LateHasCause`: a trade is late only against one that closes its minute, grace
  included, and was read ahead of it: earlier in its own partition, or from another. So a
  trade that trails its own partition by no more than the grace period is late only
  because the other one was read ahead, and one that a process meets again after a
  crash is not late because of what the one before has written. It does not say that
  nothing within the grace period is late: on two partitions that is false
  (`agg_late_unwritten`), on one it follows (`GraceSparesAll`). Checked with any
  disorder, any replay and both partitions in use, and claimed of a process that the
  group does not drop: what a rejoin delivers again was read before.
* `LateMeansWritten`, `BarsNeverShrink`, `LateStaysRecorded`: what the comments and
  tests say of late trades and replays, and what the code does not do.
* `FinishedMinutesReachStore`: a liveness property.
* `DropsAreCounted`: received trades are published, failed, still with the producer,
  or dropped by a reconnect that was counted.
* `PublishesInOrder`: lost answers, expiries and restarts neither repeat a trade in
  the topic nor put it behind a later one of its symbol.
* `FullStaysFull`: once the queue is full when a trade is due, only the end of the
  process makes room. `RefusedMeansUndelivered` is what `kafka_conf.py` says of it.
* `ComesBack`: a liveness property; without the timeout of `recv()` a socket that
  died in silence would be waited for forever.
* `OkMeansWindows`, `StalledMeansNone`, `StallReported`, `FreshMeansAccepted`: what
  the verdicts of the check promise, each relating a verdict to what was written or
  accepted meanwhile. A check that finds a new process below the old count calls it
  stalled although it works; `StalledMeansNone` is therefore claimed of one process.
* `ObjectsWhole`: an object has every candle its day had when the fetch began.
* `ObjectsOfTheirDate`: no minute lands in two dates, and no object is empty.
* `GreenStaysComplete`, `MissingMeansDelisted`: what a registered day promises, after
  clears and re-fetches too. Cells that DAG and script fetched at once are left out:
  the later put wins and the gate measured the other.
* `FillsBronze`: the refinement that `Warehouse` builds on.
* `ExitZeroMeansStored`, `DatesReachWarehouse`: the script's exit status; liveness.
* `DayIsOneLoad`, `ReplacesWholeDays`: the transaction of `load_day()` seen from
  outside, with two programs at it. The model can break both: a DELETE that others see
  before the commit empties the date, and stays if the load then fails; and of two
  transactions on one date the second does not delete what the first inserts.
* `FactGrain`, `FactAtItsVersion`, `VersionsTile`: the promise of the star schema.
  `FactAtItsVersion` relates a fact to the *current* history of its symbol, so it
  must survive each later snapshot.
* `VersionsDiffer`: a version is a change. The snapshot runs twice in each run of the
  DAG and again when a task is retried, and none of these may write what is there.
* `FactKeepsItsVersion`: a correction does not rewrite history. A row that is loaded
  again is joined anew, to a version that may be closed by then, and must find the
  one it had.
* `FactCoversRaw`, `FactHoldsOnlyRaw`: after a build the fact table is `raw`, no row
  less and no row more; the second does not hold.
* `CompleteDatesReachFact`, `MetadataReachesDim`: liveness properties. Metadata that
  stay as they are reach `dim_symbol` and stay there: a run that skips or fails may
  delay them, and no later one may show older ones.

### Bounds

**Aggregator.** Two or three symbols, one or two partitions, three or four messages, two
or three minutes, at most one fault. Two symbols are needed for windows of the same
minute to interleave, two partitions for the shared watermark, four messages for
the shape *tail of a minute behind the head of the next*, which is the smallest at
which a bar shrinks. `WrittenLimit = 0` prunes at every flush, with any cutoff:
the clock and event time are not related. `Skew` says how far behind the newest
trade one may be published; `agg_delivery` lets it exceed the grace period, so late
trades are reached. `DeliverySpec` allows three messages wherever they are.
`BarsSpec` lets a fault meet minutes in order, and symbols that trail each other across
a minute meet none: a fault over trailing symbols is what `agg_shrink` shows to go
wrong. Its two symbols of one partition have up to four messages; once the partition
of the third is in use there are three in all, which is enough for one partition to be
read to where the other's unread trades are just not past. One of three messages
may be malformed (`OneMalformed`). `MaxRejoins` is 0 in `agg_bars`: with a rejoin a replayed trade is added a
second time to a window kept in memory, and a commit may move back. A and B are
interchangeable in `agg_bars` and declared symmetric.

**Receiver and health.** A queue of two messages is exceeded by three trades; two
partitions of one symbol each let one wait behind a lost answer while the other moves
on; two incidents are a lost answer followed by an expiry, or a death inside a
write. A period of three units with limits of one and two is the shape of five
minutes with two and three. `OneWriter` (in `MCSpec`) lets one of the two heartbeat
writers work while the other rests, because the check judges the files one by one;
once time passes while the receiver works it meets one incident, not two. The proofs
have no such limits.

**Ingest.** One date of three minutes and two symbols, pages of two candles: a full
page and a last one, and a gap makes the full page the only one. One task slot, two
attempts, one retry, any two incidents. `PerCent = 60` of three passes two candles
and refuses one. A second date would only repeat the first: dates share nothing but
`ActiveRuns` and `Workers`, which the proofs leave open.

**Warehouse.** In `wh_load` two dates are needed (a late one and a later one), two symbols
for completeness, two minutes in a date so that an object can come back short, one
run of the script, and one incident (`OneIncident`): an object is fetched again, or a
task fails, between the DELETE and the commit of either loader too. `wh_versions` gives one symbol two changes, hence three
versions, a closed one between two others, and one date whose object may be fetched
while the date is in progress, is fetched again and may be loaded again after either
change, with one failure at any step. `Start` is the time the pipeline is switched on:
dates before it are history, for the first version of a symbol to be younger than
facts. `CompleteOnly` is the script without `--allow-partial`; with that flag incomplete
dates are loaded by request and `ReplacesWholeDays` has nothing to promise. In `wh_load`
and `wh_late_commit` symbols are interchangeable and declared symmetric; no run with a
temporal property under fairness uses symmetry.

### Fairness

`Aggregator.Fairness`: the timer fires (`WF(StartFlush)`), a flush that was begun goes
on (`WF(FlushStep)`, `WF(CommitSafely)`: straight-line code), systemd restarts the
process (`WF(Restart)`: `Restart=always`, `StartLimitIntervalSec=0`), and the client
serves every partition (`SF(Ingest(p))`: reading alternates with flushing, so
delivery of a partition is enabled again and again, not continuously). Nothing is
assumed of publishing, faults and rejoins.

`Receiver.Fairness`: the loop goes on (`WF(Loop)`: a timeout fires, a connection that
is not refused is made, what arrived is read, systemd restarts) and the broker works
off each partition (`WF(Broker(p))`). Nothing is assumed of trades, incidents or time.

`Ingest.FairSpec`: Airflow runs what is queued and a request or an upload returns or
raises (`WF(StartTask(j))`, `WF(FetchStep(j))`), a run goes on (`WF(RunStep(d))`), and
the warehouse's DAG comes around (`WF(LoadDay(d))`: a daily schedule). Nothing is
assumed of Binance, of faults, of operators or of the script.

`FairSpec` of `Warehouse` assumes that the scheduler starts a run when none is
running (`WF(StartRun)`: a daily schedule, `max_active_runs=1`), that a run goes on
(`WF(RunStep)`) and that the script does (`WF(LoadStep("script"))`). Nothing is
assumed of the exchange, of Bronze, of failures, or of somebody running the script.

## 4. The proofs

`AggregatorProofs` proves, for all symbols, partitions, assignments of symbols to
partitions, grace periods and bounds, under the assumptions named in `Aggregator`
(constants are numbers; a symbol has one partition):

* `TypeCorrect`, `InductiveInvariant`;
* `NothingCommittedIsLost`, `CommitHeldBack`, `WrittenMinutesStayGone`: the safety
  invariants of `agg_delivery`;
* `ImplementsAtLeastOnce`: the refinement of `agg_delivery`.

The argument. Of each partition the process has read an interval `lo..hi-1`, and
everything below `hi` is *accounted for*: stored, late, or in a window. Everything
in the interval is moreover *known*: its minute is past and closed, or it is in its
own open window. A commit moves the offset only within `lo..hi`, and below every
offset that feeds an open window, so what it passes is stored, for `late` is empty
by then (`LateInv`). A rejoin moves `fetch` back within the interval; since what
is read again is known, it opens no window below the committed offset. That is why
`CommitBelowOpenWindows` alone is not inductive, and what `SpanInv` adds to it.
`WindowsInv` ties the offset kept for a window to the lowest of its trades.

`BarProofs` goes on from there.

* `NoTradeCountsTwice`, `CommitsMoveForward`, for all partitions and orders, as long as
  the group does not drop the consumer (`[]NoRejoins`); the first is the part of
  `BarsWhole` that needs no other condition. `ReadOnce`: the process reads
  on from where it is, so what a window holds lies before `fetch`, and the trade read
  next is new to it.
* `StoredBarsAreWhole`, `CommittedTradesAreInBars`, `StoredBarsAreFinal` and
  `ImplementsCandles`, for any number of partitions (the deployed topic has two,
  `src/bmp/kafka_conf.py:18`), assuming `InGrace` (trades trail the newest by no more
  than the grace period), and of the behaviour `[]NoRejoins`, `[]KeepsUp` and
  `[]FaultsInOrder`: a fault meets a log only while no partition of it goes back to an
  earlier minute.
* `LateTradesHaveCause`: `LateHasCause` for any partitions, disorder, grace period and
  faults, from `[]NoRejoins` alone. A trade is filed when its key was written, which by
  `WrittenStaysGone` means that the watermark had passed its minute before it was read,
  or when the watermark passes it now; its own time never does. And the watermark is the
  time of a trade that was read (`WatermarkRead`), which is the cause, and remains it.
* `OnePartitionKeepsUp`, `GraceSparesAll`: with one partition (`OnePartition`), `InGrace`
  and `[]NoRejoins` the process always keeps up, and nothing is late, since no trade
  closes the minute of one that follows it; the condition `KeepsUp` is about what two
  partitions add.

The hypotheses on the behaviour are what the code relies on and does not enforce.
`agg_shrink` (a fault without the order) and `agg_late_unwritten` (a process that does not
keep up) show that two of them are needed, and `agg_bars` that they are met by behaviours
with faults and with both partitions in use.

The argument. `WholeInv`: the trades of a key lie all below the commit or all above
(`Below`, `Above`), in the one partition its symbol has; a key is *settled*, stored
and past or below the commit, or *live*, its window holding exactly what was read of
it; a stored bar has all trades of its minute and the topic's event time has closed
it. A commit holds this up because an open window keeps the offset at its first trade,
and with minutes in order what is past lies before that (`PastBeforeOpen`). A restart
then replays minutes whole or not at all. `KeepsUp` stands where one partition had the
fact that the watermark is the time of a trade read before every unread one. Finality
and the refinement follow from `WholeInv` and not from another invariant: a window
that is written holds all trades of its minute (`WriteIsFinal`), so it writes the bar
that is there already or the first one (`WriteIsStore`), and a trade within the grace
period of the newest cannot belong to a minute that event time has closed
(`PublishIsTrade`).

`ReceiverProofs` proves, for all symbols, partitions, limits and bounds (assuming that
there are finitely many partitions and the limits are positive):

* `TypeCorrect`, `NoSilentDrop`, `AFullQueueStaysFull`: `Books` balances what was
  received against what was published, failed, is outstanding and was reconnected
  over, and bounds `Outstanding` by `QueueMax`;
* `ImplementsTradeLog`: `Ordered` says that of each symbol the topic, then the queue,
  then the socket hold ever later trades, and that a head whose answer was lost is
  already the last of its symbol in the topic, so sending it again adds nothing.

`HealthProofs` proves, for all limits and periods of the timer:

* `HealthTypeCorrect`, `PassingChecksAreTrue`, `StallsAreTrue`, `StallsAreReported`,
  `AFreshHeartbeatIsTrue`. `CountsInv` relates every count that is kept anywhere, the
  process, the heartbeat, the state file, to the windows written when it was taken,
  whichever process took it; `Remembered` what the last check saved; `AcceptedInv`
  a heartbeat's age to the last accepted trade.

`IngestProofs` proves, for any finite universe, dates, pages, retries and workers:

* `TypeCorrect`; `NothingIsSkipped` and `PartitionsAreDays` from `StoreInv` (a fetch
  in flight has everything its day had below its cursor); `GreenLacksOnlyDelisted`
  from `DoneInv` (a task that is done has its object); `GreenIsForGood` from
  `GreenInv` (away from contested cells the object is what the task measured or has
  more); `ExitZeroIsTrue` from `ScriptInv` (a cell off the list is stored, counted as
  failed or in flight);
* `ImplementsBronze`: every step puts one object whole, lets time pass, or stutters. It
  rests on the types and on `Offers` (what Binance offers has begun): what a fetch holds
  is part of what was offered, within the bounds of its day, and an empty fetch is
  never stored.

`WarehouseProofs` proves, for all symbols, dates, lengths of a date, shapes of an
object and bounds, from the assumptions named in `Warehouse` (constants are numbers;
any two fetches of a date have a minute in common, so an object is never empty):

* `TypeCorrect`;
* `LoadingInvariant`, `DatesComeFromOneLoad`, `LoadersImplementDayTable`, the
  last three assuming `CompleteScripts` (the script is not told `--allow-partial`).

The argument. `LoadInv`: what a loader has listed is complete and stays so, for
objects are replaced but never removed; so what it reads has a row of every symbol
and rows of its date only, and a commit replaces the date by exactly that. The DELETE of
an open transaction hit every row that is still loaded of its date: it hit all there
were, and a commit on the same date in between makes it lose. So no row of an older
load outlives a commit, and no date is ever made of two loads.

`StarProofs` proves, with no assumption on the script or on overlap:

* `StarInvariant`, `VersionsFollow`, `FactRowsAreUnique` (`FactGrain`) and
  `FactsAtOneVersion` (`FactAtItsVersion`);
* `VersionsAreChanges` (`VersionsDiffer`) and `FactsKeepTheirVersion`
  (`FactKeepsItsVersion`);

and with `Overlap = FALSE`:

* `EveryRowReachesTheFact` (`FactCoversRaw`).

The argument. Versions are only closed and opened at `now`, and everything else,
candles, facts and versions, lies before `now` (`VersionsArePast`,
`MinutesArePast`); so closing a version takes no minute of a stored fact away from
it, and the new version starts where the old one ends. The first version is
backdated to the epoch each time `dim_symbol` is built, and a snapshot changes
nothing about which version is first (`SnapshotStarts`), so a stored fact keeps its
version key. Versions kept apart cover a minute at most once (`ApartCover`), which
is why the join of a build adds one row per symbol and minute, and why a row that is
joined again finds the version it had: the stored fact is still at a version that
covers its minute, and there is no second. `VersionsDiffer` is inductive with
`StarInv`: a version opened at `now` follows only versions closed by the same
snapshot, since all others lie before `now`, and those were closed because they differ
from what is opened.

For `FactCoversRaw`, `ReachInv`: a raw row is in the fact table or newer than all of
it, and an open transaction is newer than all of it, so the incremental filter's
`max(loaded_at)` passes nothing by. It is inductive only while no build falls into a
transaction, which is what `Overlap = FALSE` says and `wh_late_commit` denies. With
the first version backdated and the others apart, every minute has a version
(`VersionsCover`), so the join loses no row.

**Only model-checked**: the liveness properties (`FinishedMinutesReachStore`,
`ComesBack`, `DatesReachWarehouse`, `CompleteDatesReachFact`, `MetadataReachesDim`);
TLAPS does not reason about fairness and `ENABLED`. The inductive invariants (`IInv`,
`LoadInv`, `StarInv` and those local to the proof modules) are proved and not part of a
run, for what they add to the properties is there for the proofs. Every safety invariant
and action property of the passing runs is proved, under the assumptions named above.

## 5. Findings

* **A replay can overwrite a whole bar with its tail** (`agg_shrink`). The new
  process knows neither `written` nor the watermark of the one before. If the commit
  was held back to an offset before the tail of a written minute, the replay meets
  the tail while its own watermark is still low, opens the minute again and, at the
  next flush, overwrites the bar.
* **A late file is overwritten** (`agg_late_lost`). The key of a late object is its
  symbol and minute; two flushes with late trades of the same key leave the second.
* **A backlog is filed as late** (`agg_late_unwritten`). The watermark is global:
  when one of the two partitions is drained first, the minutes of the other are past
  before they were ever opened.
* **A queue that was full once stays full** (`stream_wedged`). `BufferError` leaves the
  loop before `poll(0)`, which alone serves delivery reports and makes room; so the
  process reconnects and refuses a trade, over and over, although the broker has long
  taken everything. It takes 200 000 unserved messages, some 670 trades a second
  through the five minutes librdkafka keeps one. The health check does see it
  (`FreshMeansAccepted`): the heartbeat stops.
* **A load that commits late is skipped for good** (`wh_late_commit`). `loaded_at` is
  the start of the loading transaction. A load of the script that began before one of
  the DAG and commits after the build that saw it is older than the newest row of the
  fact table, and the incremental filter never looks at it again.
* **A minute that a correction removed stays in the fact table** (`wh_vanished`).
  `unique_key` is the row's key, so the build deletes only rows it writes again,
  although the model's comment says dates are deleted.

## 6. Not modelled

* **Aggregator**: the values in a bar other than its trades (high, low and sums are
  functions of them); a message that makes `ingest()` raise each time it is read
  (`Stop` is one such death); `duration_s`, which is a `Stop`.
* **Receiver**: the text of log lines, and `duration_s`.
* **Health**: the report's wording and the webhook, which change no state.
* **HTTP client**: pacing, `Retry-After` and the waits between attempts. No property
  here is about how long a fetch takes.
* **Klines**: `expected_minutes()` of the day in progress. The gate measures dates that
  are over; for the day in progress, which only the script can ask for, the number is
  printed and nothing more. The fetch and the object of such a day are modelled.
* **Object store**: the fallback to the local disk, chosen once at start, and
  `check_writable()`, which only operators call.
* **Ingest**: a property of the gate towards the warehouse. `load_pending` counts the
  objects of a date and the two DAGs share nothing else, so it may come between the last
  put and `validate_day`, loads a date that the gate refused like any other, and takes a
  date in progress that the script has put for a complete one. The models have these
  steps (`LoadDay` does not look at `stage`, `PutObject` may put a date in progress),
  hence what is stated of the warehouse holds of such dates too; that the gate measures
  a day "before anything downstream sees the day", as the repository's README has it,
  they do not satisfy.
* **Warehouse**: values of a candle, `dim_date` and `dim_time` (functions of the date
  and the minute), the marts built from the fact table, dbt's tests (a failed task),
  a delisted symbol's other columns.
* **Stream coverage and reconciliation**: they read a table that nothing fills.
* **Deployment**: packaging; the restart policies and the timer are actions.
