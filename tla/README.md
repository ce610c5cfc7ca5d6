# Formal model of Football-Bot

TLA+ models of the live collection and paper-trading program under `app/`, the
TLC instances that check them, and TLAPS proofs. The program watches soccer
markets of an exchange over one WebSocket, keeps an order book per market,
detects bursts of trades, and executes the resulting signals on a simulated
("paper") desk whose ledger is a SQLite database.

## 1. Inventory

Everything runs on one asyncio event loop; what runs between two `await`s is
atomic. Worker threads do file and database work for exports, the archive and
the research paths.

| Part | State | Operations | Hard because | Correct when |
|---|---|---|---|---|
| **KalshiWS** `kalshi.py`, `sequence.py` | connection, subscribed set, subscription ids, last sequence numbers, markets in recovery, bounded queue of raw frames, overflow bookkeeping, `_lock` | reader, consumer, watchdog, `set_markets`, gap and overflow recovery, reconnect | four coroutines and one lock; frames are skipped, discarded, refused; connections end at any await | a book that lost a delta is out of service until a snapshot, and gets that snapshot |
| **Books** `books.py` | bids per side, `ok` | snapshot, delta | fed from the queue, invalidated past it | `ok` books equal the exchange's |
| **ShadowBook** `execution.py` | observed and remaining depth | reset, delta, invalidate, buy, sell | depletion has to survive snapshots, cancellations and failed writes | no displayed contract is taken twice, none is lost |
| **PaperDesk** `paper.py` | positions, queued entries, exit orders, kill, per-position paths | queue, execute, retry, trigger exits, time out, flatten, settle, restore | memory and ledger change separately; any transaction may fail; orders mature later | ledger and memory agree; every signal fills once; every trade ends |
| **Store** `store.py` | SQLite tables | one transaction per function | fails at any call; crashes | each transaction is all or nothing; rows stay consistent with each other |
| **Engine** `engine.py` | pending candidates, lockout times, metadata, signal paths | `handle_ws`, `process_trade`, `act_on_signal`, discovery, settlement poll, periodic and execution tasks | handlers raise in the middle; tasks die; frames are late and out of order; path writes run on threads | an episode is decided once and leaves a row; one path finalisation per signal, with a true label |
| **Detector** `detector.py`, **sleeve** `late_score_sleeve.py` | per-market windows, bursts, cooldown, history | `on_trade`, `confirm`, `observe`, `classify` | window boundaries, sibling order | a burst is confirmed by a sibling's within `CONF_MS` |
| **Match clock** `match_clock.py`, `goal_latency.py` | visible row, candidate and confirmation time per match; the mapping | poll, observe, promote, fail, drop, stamp, gate, coverage | the two tasks interleave at every await; readings age; signals carry an earlier time | the gate opens only on a stored, mapped and recent clock |
| **Provider events** `goal_latency.py`, `match_events.py`, `store.py` | seen fingerprints, lifecycle, last substantive event, scores, open windows; two tables | poll, record, link, upsert, change, finish, drop | an awaited write may fail or outlive its match; restarts | each event is recorded once and linked, each change is finished |
| **Recorder and archive** `recorder.py`, `archive.py` | active segment, ledger of sealed segments | write, rotate, seal, upload, verify, prune | threads, lost answers, crash between ledger and file | no segment leaves the disk without a verified remote copy |
| **Exports and API** `main.py`, `exporter.py` | export jobs with leases, their files; kill flag | prepare, build, status, cancel, download, expire; kill, flatten | the job is looked up before an await and registered after; builds on a thread; readers | no file is removed under a reader, and none is leaked but the snapshot of a bundle that could not be created; a cancelled job is not served |
| **Replay, audit, configuration, dashboard** | none of the running system | offline | - | - |

Interactions: the reader queues frames; the consumer hands parsed frames to
`Engine.handle_ws`, which updates the book and then calls the desk
(`apply_book_snapshot`, `apply_book_delta`, `on_book`, `settle_market`).
Recovery bypasses the queue: it dispatches an `orderbook_gap` frame straight to
the engine, which clears `Book.ok` and calls `invalidate_books`. The execution
task calls `process_pending` every few milliseconds, the periodic task
`check_timeouts`, the settlement poll `settle_market`, the API `kill` and
`flatten_all`. The desk writes through `store` and rebuilds itself from it in
`restore_open_positions`.

The hazards of each part, with the line where they bite and the property that
covers them, are listed in `PROJECT.json`.

## 2. Modules

Each component has a module, an `MC` module with its instance for TLC and one
`.cfg` per question; all but the abstract `TradeLedger` have proofs, in a module
`...Proofs` each (those of `ShadowLiquidity` end `PaperDeskProofs`).

| Module | Models |
|---|---|
| `TradeLedger` | abstract specification: what the ledger promises, no memory, no failures |
| `PaperDesk`, `PaperDeskProofs` | the realistic desk and the ledger it writes through |
| `ShadowLiquidity`, `PaperDeskProofs` | one side of a live book and its shadow, with the orders that fill from it |
| `FeedRecovery`, `FeedRecoveryProofs` | the WebSocket client's reader, consumer, queue, recovery, reconciliation and reconnect, with `Book.ok` |
| `RawArchive`, `RawArchiveProofs` | recorder, export checkpoint, archive and its ledger, with the remote store |
| `SignalFlow`, `SignalFlowProofs` | from a detected burst to its signal rows: confirmation, the two strategies, the lockout, the expiry |
| `SignalPaths`, `SignalPathsProofs` | the price path recorded after every signal: flush, finalise, evict, expire, rebuild |
| `MatchClock`, `MatchClockProofs` | the match clock, its rows, the gate, the poller and the mapping task |
| `ProviderEvents`, `ProviderEventsProofs` | the provider's events and the score changes recorded by the same two tasks |
| `ExportJobs`, `ExportJobsProofs` | export jobs, their build, leases and files |

### PaperDesk

State: `signals`, `trades`, `paper_fills` are the tables (outcome per signal,
row per trade, fill quantities summed per trade and leg); `positions`,
`pending_entries`, `pending_exits`, `kill` are the desk's attributes; `bookOk`
says whether the live and the shadow book of a market may serve a fill; `loops`
are the engine tasks that are alive.

| Action | Code |
|---|---|
| `QueueEnter`, `QueueInterrupted` | `record_signal(..., "queued")` followed by `queue_enter`, or by an exception before it |
| `RefuseEntry`, `FillEntry`, `EntryWriteFails` | one due order of `process_pending` / `_execute_entry`: a refusal, a fill, a write that fails and is retried |
| `ExecuteExit`, `ExitWriteFails` | one due order of `_execute_exit` with `record_paper_exit` |
| `BookFrame`, `BookGap` | `on_book` after a snapshot or a delta; `invalidate_books` |
| `CheckTimeouts`, `FlattenAll`, `SetKill` | the same-named operations |
| `SettleMarket`, `SettleAborts` | `settle_market` to its end, or to the entry whose write raises |
| `LoopDies`, `Crash`, `Restart` | a task ends on an unhandled write; the process stops; `start` and `restore_open_positions` |

`process_pending` is one step per order, not one per call: orders fall due in
different calls anyway, and each has its own transaction and its own `try`.
Prices, fees, marks and bid paths are abstracted to the number of contracts that
an arriving order can fill, which is nondeterministic; a price test that
refuses an order is the outcome `rejected`. `realistic=True` is modelled; the
legacy immediate desk (`try_enter`) is not.

`TradeLedger` is implemented under the mapping that keeps a trade's signal,
size, sold quantity and closed status and forgets the rest.

### ShadowLiquidity

`live` and `liveOk` are `Book`; `observed`, `shadow` and `shadowOk` are
`ShadowBook`. A fill is described by what it is (`IsWalk`: a prefix of the
ladder down to a limit) rather than by the loop that walks it. `taken` and
`shown` are history. `Inexact` is the set of bid prices `p` for which
`100 - (100 - p)` is not `p` in floating point: `consume_buy` computes the key
that way.

### FeedRecovery

A sequence number shows only as "a number is missing before this frame". The
frames waiting on the lock are states of their own (`held`, `gapFound`,
`wanted`); they are entered even when the lock is free, which only adds
interleavings. `missed` is history: a market is `away` until a snapshot of the
stream that now runs is applied to its book (a reconnect, a first `subscribed`
frame, joining and leaving the subscription all make it so), and `lost` once a
delta of that stream was missed after it. The stall guard drains a queue at or
above `HighWater`, half of its bound (`ws_queue_stall_depth`). The exchange's
answers (`SendAck`, `SendSnapshot`, `SendDelta`, `SkipDelta`, `ChangeUnseen`)
are modelled from how the code uses them. Duplicate sequence numbers, the trade
and lifecycle channels, unreadable frames and `request_snapshot` are left out
(the last is called only when a delta is refused by `Book.apply_delta`, which
with `sequence_validated=True` never happens).

### RawArchive

Three threads share the segment files: the event loop appends (`openHour`, `fh`,
`buffer`, `writing` are the recorder's `_hour`, `_fh`, what gzip has not written
yet, and the point between `_rotate` and `_fh.write`), an export closes and
renames the active file, and the archive's worker registers, uploads, verifies
and deletes. `present` and `files` are the volume, `rows` the ledger, `objects`
and `remote` the object store, `task` what the archive has established and not
yet acted on. `recorded` is history: the frames flushed to an hourly file.

| Action | Code |
|---|---|
| `Rotate`, `Append`, `Flush`, `WriteFails` | `_write_frame` with `_rotate`, its handler, and the writes of the buffer |
| `ExportBegins`, `ExportCloses`, `ExportRenames`, `ExportSeals` | the steps of `checkpoint_for_export` |
| `RegisterPending` | the same-named operation, with failing inserts |
| `UploadBegins`, `UploadPut`, `UploadFails`, `UploadMark` | `pending_uploads` and `upload`: digests, PUT and HEAD, the ledger |
| `PruneRefuses`, `PruneBegins`, `PruneMark`, `PruneUnlink` | `prune` and `_prune_one`: the guards, HEAD and the flip, the unlink |
| `Crash` | the process stops; volume, ledger and objects remain |

The content of a file is the set of its frames; equal digests, and equal sizes
(files only grow), mean equal contents. The volume may run short at any time, so
any verified segment may be pruned. The archive is enabled, and the clock does
not go back.

### SignalFlow

The markets are the legs of one match. `pending`, `lastEntry`, `bursts` and
`lastCand` are the engine's and the detector's attributes, `rows` the signals
table, `orders` the desk's queue with the time each order matures. What the
detector makes of a trade (nothing, a notable burst, a tradeable sweep) is an
input of `Trade`: the thresholds are not modelled, the cooldown, the memory of
bursts and the confirmation by a sibling are. A frame carries an exchange time up
to `MaxLag` behind the wall clock, so frames arrive late and out of order.

| Action | Code |
|---|---|
| `Trade` | `process_trade` whole: the pending candidates against the new burst, `act_on_signal` for each that is confirmed, the new candidate, both strategies |
| `ExpirePending` | the expiry of `periodic_task`, which dies of a failed write |
| `Execute`, `ExecuteFails` | one due order of `process_pending`, with `on_paper_entry_result`, which sets the lockout, or with a write that fails: the order is due again after `Retry`, and those behind it go on |
| `TradeInterrupted`, `ExpiryDies` | the same two handlers when a write raises |
| `Restart` | `start`: the trades still open give the lockout their entry times |

The pending list only grows at its end, so it is a set whose elements carry the
number of their episode. What a handler writes is the set of its writes
(`Writes`, `ExpiryRows`), put in the order of the list with Gate A before the
price-only sleeve (`InOrder`). A call that inserts a row may raise, and the
interrupted handler leaves the rows and orders written before. A failure in the
pass over the pending candidates leaves the pending list as it was
(`engine.py:1124` is not reached), so what was decided waits again; one in the
writes of the trade's own candidate (`engine.py:1125-1137`) comes after the list
was replaced, and only that candidate's decision is lost. `abandoned` counts the
first kind, as history.

Due orders execute in the order of their rows (`Turn`), but a retried one falls
behind those due meanwhile, so fills need not be in row order. `trades` numbers
the fills as the ledger does; the last fill is the one with the greatest id.
`fills` holds those opened by this process or found open by its restart.

### SignalPaths

`watches` is the deque of watches, each with its buffer (`rows`), its counter
and the write in flight. A write is three steps: the loop captures the buffer
and dispatches it, a worker commits or fails (`WorkerCommits`, `WorkerFails`),
and the callback runs on the loop (`WriteDone`); frames, ticks, new signals and
a crash come between. `BookFrame` records a quote in any set of watches: which
quotes deserve a row (changed, not thinned) is its choice. The inline writes of
a process without an event loop are left out, as only synchronous tests take
them. `ticking` says that `periodic_task` is alive: nothing catches what its
body raises, so `PeriodicDies` ends it on any failed write, an interrupted
`record_signal` called from it does too, and only a restart brings it back.
After that only a frame expires a path. `lost` is history: the signals whose
watch a crash, or the exception between the insert and the watch, took.

### MatchClock

A match runs through `Course`, a sequence of payloads reduced to status, period
and minute; `at` says how far it has come and `since`, as history, when it came
there. `Parse`, `Gate` and `GateAge` are the pure functions of the code.

| Action | Code |
|---|---|
| `Ask`, `Answer`, `RequestFails` | the request of `_poll`; the answer may speak of any part of what was asked and of any moment since |
| `Observe` | `_record_clock` with `observe`, up to its insert |
| `InsertReturns`, `InsertFails` | the awaited insert, with `promote` or `fail_persist` |
| `PollEnds` | the end of the batch, or an exception that abandons the rest |
| `RoundStarts`, `RoundDrops`, `Resolve`, `RoundEnds` | `_resolve_new_events` of the mapping task between its awaits |
| `Discover`, `Advance`, `Tick`, `Restart` | the rest of the world |

The gate is a state predicate (`GateOutcome`), asked for every arrival time a
signal handled now may carry. The latest clock is not read back after a
restart, so a restart closes the gate until the next poll. `mark_candidate_active`
is never called and is left out.

### ProviderEvents

The same two tasks seen from the tables of events and score changes. Every
`await` of `_record_provider_events`, `_record_change` and `_finish_pending` is
a step boundary: `LookupReturns`, `UpsertReturns`, `ChangeReturns`,
`FinishReturns`, each of which may fail instead (`PollFails`, `FinishFails`).
`poll.known` is the set of fingerprints the running loop holds; it is the
observer's own set until the mapping task drops the match (`shared`). Payloads
are sequences of items with a fingerprint and a kind. A score in memory or in a
row is kept as the place in `Course` it was read at: the code compares the scores
of those places only, and the properties can tell which stretch of the match a
written change covers (`Overlapping`). `noted` is history: the changes of phase
`lifecycle_state` ever made, which is before they are written (`Missed` are those
that never will be). `pending` and the due rows
of a pass are sets: the code's lists are in row order, as rows are appended and
never reordered, so a pass takes the least row first. The batched refreshes of
`last_observed_ts` are left out: they change no other column.

### ExportJobs

A job is named by the number of its request, so a second request never meets a
job's name again. `worker` is the state of the job's task, `files` the exports
directory. Expiry is part of the handlers that call it (`Swept` in `Prepare`,
`StatusAsked`, `Download`), never a step of its own.

| Action | Code |
|---|---|
| `Prepare`, `PrepareFails`, `Register` | `prepare_study_export` before and after its await |
| `BuildStarts`, `BuildReturns` | `_build_export_job` before and after its thread |
| `BundleCreated`, `BundleRefused` | the start of `build_study_bundle`: its directory and file (`exporter.py:357-366`), or their failure, which leaves the snapshot |
| `Built`, `Stopped`, `BuildFails` | the rest of it, within the `try` (`exporter.py:369`) |
| `StatusAsked`, `Cancel`, `Download`, `Release` | the endpoints and `_release_export_lease` |

`unopened` is history: the jobs whose bundle could not be created. A restart
would orphan the files, because the registry of jobs is memory only; it is not
modelled.

## 3. Runs

| Run | Bounds | Result |
|---|---|---|
| `desk_safety` | 2 signals (one per strategy) on 1 market, 2 contracts, 2 failed transactions, 1 crash | holds |
| `desk_liveness` | 2 signals on 2 markets, 1 contract, 1 failed transaction, 1 dead loop, 1 crash | holds |
| `shadow_liquidity` | 2 prices, at most 4 contracts ever displayed at each; the inexact price is below the cap's floor | holds |
| `feed_safety` | 2 markets, queue of 2, 2 overflows, 2 reconciles, 1 fault (a skipped delta or a disconnect) | holds |
| `feed_disconnect` | 1 market, 1 disconnect | violated: finding 1 |
| `archive_safety` | 2 hours, 2 frames, 1 export, 1 failed call, 1 crash, 2 attempts | holds |
| `signal_flow` | 2 legs, one of which sweeps in one direction, 3 candidates, 1 row refused or declined, frames up to 1 late, 1 failed write or restart | holds |
| `signal_paths` | 2 signals for a tracker of 1, 4 quotes each for 3 usable rows, flushes of 2, 2 failed writes, 1 crash | holds |
| `match_clock` | 1 match of 3 payloads, times up to 3, answers up to 1 late, 2 rows, 1 fault | holds |
| `provider_events` | 1 match with a goal, its correction and a substitution, 2 failed writes or restarts | holds |
| `export_jobs` | 2 requests of any scope, 2 downloads and 1 refused range each, times up to 2, 1 failure | holds |
| `export_two_full` | the same requests | violated: finding 2 |

Why the bounds suffice: two contracts are the least that has a partial exit, two
signals the least where one write of a settlement succeeds and the other fails,
two failures the least that fails a retry. Two markets are the least where one
market's gap is revealed by the other's frame or coalesced into a recovery that
does not cover it; a queue of two is the least where a discarded frame has a
frame behind it that reveals it. Two hours are the least with a rotation, two
frames the least where one is archived while the other is buffered, two attempts
the least with a retry. Two legs are the least with a confirmation, two
candidates the least that meet the lockout, three the least where two orders
execute out of row order and a third meets what they leave; a retry is as long
as the step of the clock. Four quotes exceed what a path of three may hold, and
flushes of two overlap with recording. Matches do not interact in the two match
modules but through the batch, whose order is a free choice; three payloads are
a clock that changes, a missing status and the end. An answer's lag stands for
the whole request with the client's retries (`kalshi.py:107-124`), minutes in
the worst case. Two faults let one failed write lose an event with the change of
phase behind it while another loses one more or repeats a score change, and
every bound of `FaultsCostOneEach` is reached. Two requests are the least that
overlap; jobs interact only through the lookup of the active full job.
`CHECK_DEADLOCK FALSE` is said where the bounds or the code let everything come
to rest: the feed with nothing subscribed, the archive with everything archived,
the other modules at the end of their clocks and budgets.

What the passing runs say:

* `LedgerBalances`, `DeskOwnsOpenTrades`, `OneTradePerFill`: memory and ledger
  agree in every reachable state, through partial exits, failed writes,
  half-finished settlements and restarts; a signal is filled once.
  `ExitOrdersPersist`: no step loses an exit order or lets a weaker one replace
  it. `ImplementsLedger`: the durable part is a `TradeLedger`.
* `OpenTradesClose`, `PendingEntriesExecute`: trades of resolved markets close,
  orders execute while their task lives.
* `DepthIsConserved`, `ShadowFollowsLive`: depth is neither reused nor lost.
* `RecoveringBooksDoNotServe`, `LossesStopFills`: a subscribed book that lost a
  frame of the running stream stops serving fills. The exceptions are named in
  the property: while a task that knows of the loss waits for the lock, and
  after a discard of a market that was still marked from an earlier one, until
  the next frame's number shows it (`LeftToTheSequence`).
* `FramesAreKept`, `VerifiedIsRemote`, `RowsOnlyAdvance`: nothing the archive
  deletes is lost, and no retry, late answer or restart takes a row back;
  `SegmentsAreArchived`: what nobody writes is archived, until its attempts run
  out. `FramesAreKept` speaks of frames flushed to an hourly file.
* `PendingIsUnconfirmed`: the trade that completes a confirmation is the one
  that acts on it, whatever order the legs' frames come in.
  `EpisodesAreDecidedOnce`: one decision per strategy or one for both; every
  handler interrupted before it replaced the pending list may repeat it once, and
  does. `LockoutHolds`: no order is queued within the lockout of the fill of the
  strategy and market that was executed last, late stamps, retried orders and a
  restart with its trade open included. `PendingIsRecorded`: every pending
  candidate leaves a row, unless the periodic task died or the process stopped.
* `RowsAreOwned`: a recorded row is in the buffer or on disk, in order,
  whatever write overlaps with recording or fails. `LabelsAreTrue`: complete,
  truncated and incomplete mean what they say. `OneFinalization` and
  `PathsAreFinalized`: one finalisation per path, which comes in the end unless
  the periodic task is dead for good.
* `AcceptedHasLineage`, `AcceptedIsCurrent`: what the gate accepts is a stored
  row, and the match was there no longer ago than the age limit and the time an
  answer takes. `CoverageAgreesWithGate`: the dashboard's freshness is the
  gate's.
* `CorrectionsAreLinked`, `FaultsCostOneEach`, `WindowsAreFinished`: a
  correction finds what it revises across polls, drops and restarts; a failed
  write loses one event and the change of phase behind it at most, or repeats one
  score change, and a restart loses the change of phase in hand at most; every
  score change is finished.
* `FilesAreOwned`, `CancelIsHonoured`, `JobsFinish`: no export file is deleted
  under a reader, none is left behind but the snapshot of a build that could not
  create its bundle, a cancelled job is never served, no job hangs.

`desk_safety` allows no dead loop: it adds nothing to safety.

### Fairness

Desk: weak fairness of `Restart` (the service is restarted by its host), of
`SettleMarket` (the poll visits every held market every 30 seconds and catches
its own errors), and of executing a queued order while the execution task is
alive (it polls every few milliseconds; failed writes are bounded, as a database
that never recovers lets nothing finish). No fairness for the publication of
results, for book frames or for exits. Feed (used by `RecoveryCompletes` only,
see below): weak fairness of the tasks, strong fairness of the exchange's
frames. Archive: weak fairness of a pass (`run` ticks for ever and a tick
completes what it began), strong fairness of each upload, because a pass takes
the oldest segments first and a failing one backs off and gives up after
`MaxAttempts`; none for frames, exports or the clock. Signal flow: time passes
and the periodic task runs while it is alive. Paths: windows end, the periodic
task ticks while it is alive (it has no `try`, and nothing starts it again but a
restart), workers answer, a stopped process comes back; none for frames, which
need not come. Provider events: the run task loops for ever and survives its
errors, and windows end with time. Exports: tasks of the event loop run and
worker threads end.

### Findings

1. A disconnect or a stall drain takes no book out of service, against the
   docstring of `KalshiWS`.
2. Two overlapping full prepare requests start two full jobs, against the
   hand-off document: the active job is looked for before an await and
   registered after it.

### Known departures

These properties are defined in the modules but are in no run: the code breaks
them, in ways no document of the repository rules out or that were judged
minor. Each is reproduced by naming the property in the configuration given.

| Property | Module | What happens | To see it |
|---|---|---|---|
| `OutcomesAreFinal` | `PaperDesk` | `settle_market` finalises a signal, fails on the next one, and leaves the first in the queue to be finalised again | `desk_safety` with it as PROPERTY |
| `NoOrderIsStranded` | `PaperDesk` | the execution task writes telemetry outside its `try` and ends on one failed write | `desk_liveness` with it as PROPERTY |
| `DepthIsConserved` with an inexact price in reach | `ShadowLiquidity` | a buy at a price whose round trip through `100 - x` is inexact takes depth that stays on offer (only with a `PRICE_CAP` above 64) | `shadow_liquidity` with `CapFloor = 1` |
| `RecoveryCompletes` | `FeedRecovery` | a recovery whose snapshot reveals a second gap within the retry interval is never asked for again | one market, `MaxFaults = 2`, the other bounds 0, `SPECIFICATION FairSpec` |
| `MarkedBooksDoNotServe` | `FeedRecovery` | `set_markets` leaves the overflow mark of a market it drops during a recovery (`kalshi.py:360-363`); back in the subscription with a good book, a further discard of its frames is not disclosed (`kalshi.py:740`), and its book serves until the next frame's number shows the gap | `feed_safety` with it as INVARIANT |
| `OnlyActiveIsOpen` | `RawArchive` | the collector reopens the hourly file between an export's checkpoint and its rename, and appends to the finished part until the hour rotates | `archive_safety` with it as INVARIANT |
| `EveryFillLocks` | `SignalFlow` | two orders queued within the arrival latency fill newest stamp first, or the older one last because its write was retried (`paper.py:366-373`); the older fill sets the lockout back (`engine.py:1284-1288`), and a third order is queued within the lockout of the newer. A trade closed before a restart leaves no lockout (`engine.py:1835` takes the open ones) | `signal_flow` with it as PROPERTY |
| `EveryPathIsFinalized` | `SignalPaths` | `periodic_task` (`engine.py:1545`) ends on one failed write; on a market without frames nothing finalises a path any more until a restart | `signal_paths` with it as PROPERTY |
| `NoSnapshotIsLeft` | `ExportJobs` | the bundle's directory or file cannot be created (`exporter.py:357-366`), which is before the `try` whose cleanup removes the snapshot; `_build_export_job` (`main.py:1060-1068`) does not remove it either | `export_jobs` with it as INVARIANT |
| `CorrectionsLinkToGoals` | `ProviderEvents` | the link kept in memory includes corrections, the one read from the table (`store.py:1632-1640`) does not: a second correction links to the first | a course with two corrections |

Smaller observations made while modelling: a fingerprint is marked as seen
before its row is written, so a failed write loses that event for good
(`FaultsCostOneEach` counts it), and with it the change of phase behind it,
which `lifecycle_state` has made already (`goal_latency.py:337`, `350`); an
evicted path is labelled complete though its window is not over
(`engine.py:871`); a job cancelled while it is queued shows as preparing until
its build notices (`main.py:1030`); a refused range keeps its lease, and with it
the file of an expired job (`main.py:1207`); the score change whose log entry
fails is written twice; the after-window of a change is empty after a restart.

## 4. Proofs

For every value of the constants (any sets of signals, markets, jobs or
matches, any quantities, any number of failures, crashes, losses):

* `PaperDeskProofs`: the inductive invariant is the conjunction of `TypeOK`,
  `LedgerBalances`, `DeskOwnsOpenTrades` and `OneTradePerFill` with the
  ownership of orders. None is inductive alone: that an exit keeps the ledger
  balanced needs the desk's copy of the progress to equal the row
  (`DeskOwnsOpenTrades`), which in turn needs the row not to be closed with
  contracts left (`LedgerBalances`), or a restart would skip it. One lemma per
  action; exits and settlements share the lemma about `CommitExits`.
* `PaperDeskProofs` also shows the refinement: every step of the desk is a step
  of `TradeLedger` or a stutter (`ImplementsLedger`), and no step loses an exit
  order (`ExitOrdersPersist`). The invariant is used on both sides of a step:
  rows are rewritten from the desk's copy of the progress, and only because the
  two agree before and after is the write the ledger's own payment. One lemma
  for each action that writes the ledger; the others leave it alone.
* `PaperDeskProofs`, at its end: `DepthIsConserved` of `ShadowLiquidity` with
  the types and `ShadowFollowsLive`, which says that depletion is never
  negative. The theorems assume `RoundTrips`: every inexact price is out of a
  buy's reach. Without it the statement is false (Known departures).
* `FeedRecoveryProofs`: types, the queue bound, `RecoveringBooksDoNotServe` and
  `LossesStopFills`. The last is not inductive: a market that joins counts
  before it is in `_subscribed` (`LossesAreKnown` speaks of the markets
  `set_markets` is about to subscribe too), the first frame of a stream is
  never a gap, so no book may come from a stream of which nothing was tracked
  (`UntrackedIsAway`, and `OfflineIsAway` across a reconnect), and only a frame
  that waits has markets to disclose (`DroppedIsHeld`). What the queue holds is
  never spoken of: a gap is charged to the frame that reveals it.
* `RawArchiveProofs`: no frame is lost (`FramesAreKept`), with the types, the
  truth of verified rows, and the order of a row's states. The invariant says
  more than `FramesAreKept`: a frame has a copy on the volume or in an object
  whose row is verified (`KeptInv`), because other objects may be overwritten;
  the file about to be deleted has no recorded frame that its object lacks
  (`TaskInv`), which survives because the recorder's own handle is on an active
  file (`HandleInv`), any other handle flushes frames that were in no file
  (`BufferInv`), and the part an export makes is new (`PartInv`).
* `ExportJobsProofs`: types, `FilesAreOwned` and `CancelIsHonoured`. The
  invariant is one condition per job (`Consistent`) on its record, its task, its
  leases, its two files and whether its bundle could be created; it adds that a
  job whose task has not concluded is not ready, names no bundle and has no
  lease. Expiry is shown once to keep it (`SweepKeeps`), because three handlers
  contain it.
* `MatchClockProofs`: all four properties of the match clock. The invariant
  carries `WasAt`, that the match was at a reading shortly before a given time,
  from the answer to the batch, to the candidate in flight and to the visible
  row; it holds because an answer speaks of a moment since its request and the
  match moves no earlier than now. It also says that nothing visible is
  newer than the batch, or a confirmation could set a row's time back.
* `SignalFlowProofs`: all safety properties of the signal flow, for any legs,
  windows and latencies and any order of the frames. `EpisodesAreDecidedOnce` is
  not inductive: `Charged` counts, for every candidate and strategy, the
  decisions written and the one that may still wait, and bounds them by the
  abandoned handlers and restarts plus one once the market's cooldown has reached
  the candidate (`Seen`); a handler that finishes trades what waits for a row,
  one interrupted before the list is replaced pays with its failure, and one
  interrupted after that has only written less. `OneKind` is the other half, that
  without interruption the strategies decide or neither does. `LockoutHolds`
  rests on `NewestFillLocks`, that the lockout counts from the newest fill or
  later, where the newest is the one with the last id, not the last row, because
  a retried order fills after those behind it: an execution keeps it because
  `_remember_fill` always writes, a restart because the open trades are taken by
  id and an entry is no earlier than the stamp of its candidate (`Stamped`).
* `SignalPathsProofs`: all safety properties of the forward paths. The invariant
  says of every watch how its rows and those of the write it has in flight are
  numbered (`Shape`), and what the database and the history hold of its signal:
  the rows flushed, the sent ones too once a worker has committed them, and a
  marker exactly when a finalisation is committed (`Stored`). `RowsAreOwned`
  is not inductive alone: between a worker's commit and its callback the same
  rows are on disk and still counted in the watch, and only the phase of the
  write tells that from rows written twice. A crash turns every open watch into
  `lost` or into rows that the rebuild finalises, so the invariant speaks of the
  stopped process too. The death of the periodic task touches none of it.
* `ProviderEventsProofs`: all safety properties of the provider's events, for
  any number of matches and any course. The invariant has five parts that
  hardly speak of one another. `Links`: the link in memory, and the one in the
  upsert under way, is a row of the match, and exists once a goal is recorded.
  `Fingerprints`: what is marked and neither recorded nor being written is paid
  for by a failed write; the set a pass works with is the observer's own unless
  a drop separated them. `PhaseChanges`: a change of phase that was made and is
  neither recorded nor in hand is paid for by a failed write or a restart; a pass
  has one in hand at most (`OneTransition`), and whatever is marked was made.
  `Follows`: a written change that overlaps an earlier one, and a match whose
  baseline lags behind what is written for it (`Lagging`), which may write such a
  change next, are paid for by a failed write together; the answer in hand is
  past everything that is written. `Windows`: what a pass
  found due is finished or stays pending.

Constants are assumed to have their types only (`ConstantsOK`; in `SignalFlow`
also that the cooldown, the lockout and the retry interval are positive; in
`MatchClock` and `ProviderEvents` also that the absent value is none of the
others, as Python's `None` is no fingerprint, no match and no payload, and in
`ProviderEvents` that a match has a first payload and no item of it has the
fingerprint of a change of phase).

Model-checked only: the liveness properties, because liveness under fairness and
`ENABLED` are out of TLAPS's reach.

## 5. Not modelled

* The windows and thresholds of the burst detector and of the late-score sleeve:
  pure functions of prices and sizes that share no state; their verdicts are
  inputs of `SignalFlow`.
* The legacy immediate desk (`try_enter`), bid-path telemetry of positions,
  reports and statistics of the store.
* A second subscription id, `request_snapshot`, the trade channel and REST of
  the feed; the aborted settlement that tears the connection down is in two
  modules that are not composed.
* Payload normalisation, HTTP, authentication, file formats, the browser view,
  offline replay and audit, configuration parsing: I/O or pure functions.

Worth doing next: a composition of the settlement path of the feed with the
desk.
